---- MODULE Spec2Model ----
(***************************************************************************)
(* Verification model of pimalaya/libraries (email, email-tpl, start-tls). *)
(*                                                                         *)
(* The module holds one state machine per component.  Every component has  *)
(* its own variables, its own Init and Next and its own specification;     *)
(* the variables of the other components are parked at a fixed value.      *)
(*                                                                         *)
(*   SpecFlags    Flags / Flag          email/envelope/flag/mod.rs         *)
(*   SpecLock     MaildirContextSync    maildir/mod.rs and the features    *)
(*   SpecMaildir  folder resolution     maildir/mod.rs                     *)
(*   SpecSync     one folder's sync     (envelope/flag sync, from the spec)*)
(*   SpecExec     the patch executor    (from the spec)                    *)
(*   SpecFolders  the folder tasks      folder/error.rs (and the spec)     *)
(*   SpecBuilder  MaildirContextBuilder maildir/mod.rs                     *)
(*   SpecStore    remove, move, get     the maildir features               *)
(*   SpecPeek     notmuch peek_messages message/peek/notmuch.rs            *)
(*   SpecImap     imap get_messages     message/get/imap.rs                *)
(*   SpecParse    Flag / Flags from text email/envelope/flag/mod.rs        *)
(*   SpecTpl      Tpl and the compiler  email-tpl/src/tpl.rs, mml/compiler *)
(*   SpecStartTls ImapStartTls::poll    start-tls/src/imap                 *)
(*   SpecSend     sendmail send_message message/send/sendmail.rs           *)
(*   SpecPasswd   PasswdConfig          account/config/passwd.rs           *)
(***************************************************************************)
EXTENDS Integers, Sequences, FiniteSets, TLC

VARIABLES
    \* ---- Flags ----
    flagsA,        \* a Flags value: the HashSet's table, in iteration order
    flagsB,        \* a second Flags value
    insertsA,      \* number of insertions made into flagsA (duplicates count)
    insertsB,      \* number of insertions made into flagsB
    \* ---- MaildirContextSync and the Maildir features ----
    pc,            \* per task: where it is in its capability call
    op,            \* per task: the capability being called
    owner,         \* the task holding the context Mutex, or NoTask
    queue,         \* tasks waiting in lock().await, in arrival order
    todo,          \* per task: ids the call still has to process
    locks,         \* per task: lock acquisitions made by the current call
    calls,         \* calls started so far, by all tasks
    outcome,       \* per task: how its last call returned
    \* ---- MaildirContext::get_maildir_from_folder_name ----
    aliases,       \* the account configuration's folder alias table
    expandable,    \* the paths try_shellexpand_path expands successfully
    mdFolder,      \* the folder name of the last call
    mdResult,      \* the result of the last call
    \* ---- Synchronizer, one folder ----
    policy,        \* resolution of a delete against a concurrent flag change
    snapshot,      \* Snapshot Store: the ancestor of the folder
    left,          \* left live backend
    right,         \* right live backend
    phase,         \* "idle", "applying", "done" (committed, nothing changed since)
    patch,         \* the hunks computed by the current run (both sides)
    pending,       \* hunks not yet run
    succeeded,     \* hunks applied
    failed,        \* hunks that failed
    runs,          \* runs completed
    changes,       \* external changes made
    attempts,      \* hunk executions of the current run
    start,         \* the three views listed when the current run started
    retryDue,      \* hunks that failed in the previous run, nothing changed since
    afterClean,    \* the current run follows a clean run, nothing changed since
    \* ---- Patch Executor ----
    xMode,         \* per folder: what the patch does with the folder
    xExists,       \* folders known to exist on the target backend
    xStatus,       \* per hunk: "pending", "inflight", "ok", "failed", "skipped"
    \* ---- Folder tasks of one run ----
    task,          \* per folder: "queued", "running", "ok", "failed"
    progress,      \* per folder: hunks its task has applied
    store,         \* Snapshot Store: per folder the progress committed
    result,        \* the result of the run
    \* ---- MaildirContextBuilder ----
    bConfig,       \* the account and maildir configuration the builder holds
    bBuilt,        \* "no", "ok", "failed": how build ended for this builder
    bUsed,         \* an operation was made on the built context
    bLog,          \* the capability answers the builder gave, with the state it was in
    \* ---- the maildirs of a context and the item operations on them ----
    sStore,        \* per directory and id: the entry under that id, or NoEntry
    sBefore,       \* the store as it was when the last call started
    sCall,         \* the last call: operation, folder names, ids
    sResult,       \* what the last call returned
    sRemoved,      \* <<directory, id>> pairs erased by a successful remove_messages, still absent
    \* ---- the notmuch database and peek_messages ----
    nTags,         \* per message id: its tags in the database
    nIndexed,      \* the ids the database finds
    nFiles,        \* the ids whose message file can be read
    nBefore,       \* tags, index and files as they were when the last call started
    nCall,         \* the last call: folder and ids
    nResult,       \* what the last call returned
    \* ---- GetImapMessages::get_messages ----
    gCall,         \* the last call: the Id passed, and what the server answers
    gOutcome,      \* how the last call ended: messages, an error value, a panic
    \* ---- Flag and Flags from text ----
    fInput,        \* the text converted last, and what it was made of
    fFrom,         \* the result of the infallible conversion (From<&str>)
    fFromStr,      \* the result of the fallible conversion (FromStr)
    \* ---- templates (email-tpl) ----
    tCall,         \* the call made last on Tpl, with its inputs
    tResult,       \* what the call returned
    \* ---- ImapStartTls (start-tls) ----
    handshake_discarded, \* the greeting read has completed
    command_sent,  \* the write of the command has completed
    buf,           \* the read buffer
    inbound,       \* chunks that have arrived on the stream and are not read yet
    wire,          \* the bytes the stream has accepted from the client
    ioLog,         \* the reads and writes that completed, in order
    served,        \* how many chunks of each kind the server has sent
    polls,         \* the number of poll invocations so far
    pollIn,        \* how the stream behaved in the last poll
    polled,        \* what the last poll returned
    \* ---- SendSendmailMessage ----
    preSendHook,   \* the account configuration: is a pre-send hook configured
    mSends,        \* the number of send_message calls so far
    mSendmailRuns, \* the number of runs of the sendmail command so far
    mCall,         \* the call made last, with its inputs
    mRuns,         \* the commands the call ran, in order, with their input
    mResult,       \* what the call returned
    \* ---- PasswdConfig ----
    kKeyring,      \* the keyring entry of the password: a password or NoPasswd
    kBefore,       \* the keyring entry when the last call started
    kCall,         \* the call made last, with how the keyring and the user answered
    kResult,       \* what the call returned
    kAsked,        \* the call called get_passwd
    kWrote,        \* the call wrote to the keyring
    kPrev          \* the call made before the last one, and whether it succeeded

flagVars == <<flagsA, flagsB, insertsA, insertsB>>
lockVars == <<pc, op, owner, queue, todo, locks, calls, outcome>>
mdVars   == <<aliases, expandable, mdFolder, mdResult>>
syncVars == <<policy, snapshot, left, right, phase, patch, pending, succeeded,
              failed, runs, changes, attempts, start, retryDue, afterClean>>
execVars == <<xMode, xExists, xStatus>>
taskVars == <<task, progress, store, result>>
builderVars == <<bConfig, bBuilt, bUsed, bLog>>
storeVars == <<sStore, sBefore, sCall, sResult, sRemoved>>
peekVars == <<nTags, nIndexed, nFiles, nBefore, nCall, nResult>>
imapVars == <<gCall, gOutcome>>
parseVars == <<fInput, fFrom, fFromStr>>
tplVars == <<tCall, tResult>>
tlsVars == <<handshake_discarded, command_sent, buf, inbound, wire, ioLog, served, polls, pollIn, polled>>
sendVars == <<preSendHook, mSends, mSendmailRuns, mCall, mRuns, mResult>>
passwdVars == <<kKeyring, kBefore, kCall, kResult, kAsked, kWrote, kPrev>>
vars == <<flagVars, lockVars, mdVars, syncVars, execVars, taskVars, builderVars,
         storeVars, peekVars, imapVars, parseVars, tplVars, tlsVars, sendVars,
         passwdVars>>

\* a step of one component leaves the other components alone
FlagsOnly ==
    UNCHANGED <<lockVars, mdVars, syncVars, execVars, taskVars, builderVars, storeVars,
                peekVars, imapVars, parseVars, tplVars, tlsVars, sendVars, passwdVars>>
LockOnly ==
    UNCHANGED <<flagVars, mdVars, syncVars, execVars, taskVars, builderVars, storeVars,
                peekVars, imapVars, parseVars, tplVars, tlsVars, sendVars, passwdVars>>
MaildirOnly ==
    UNCHANGED <<flagVars, lockVars, syncVars, execVars, taskVars, builderVars,
                storeVars, peekVars, imapVars, parseVars, tplVars, tlsVars, sendVars,
                passwdVars>>
SyncOnly ==
    UNCHANGED <<flagVars, lockVars, mdVars, execVars, taskVars, builderVars, storeVars,
                peekVars, imapVars, parseVars, tplVars, tlsVars, sendVars, passwdVars>>
ExecOnly ==
    UNCHANGED <<flagVars, lockVars, mdVars, syncVars, taskVars, builderVars, storeVars,
                peekVars, imapVars, parseVars, tplVars, tlsVars, sendVars, passwdVars>>
TasksOnly ==
    UNCHANGED <<flagVars, lockVars, mdVars, syncVars, execVars, builderVars, storeVars,
                peekVars, imapVars, parseVars, tplVars, tlsVars, sendVars, passwdVars>>
BuilderOnly ==
    UNCHANGED <<flagVars, lockVars, mdVars, syncVars, execVars, taskVars, storeVars,
                peekVars, imapVars, parseVars, tplVars, tlsVars, sendVars, passwdVars>>
StoreOnly ==
    UNCHANGED <<flagVars, lockVars, mdVars, syncVars, execVars, taskVars, builderVars,
                peekVars, imapVars, parseVars, tplVars, tlsVars, sendVars, passwdVars>>
PeekOnly ==
    UNCHANGED <<flagVars, lockVars, mdVars, syncVars, execVars, taskVars, builderVars,
                storeVars, imapVars, parseVars, tplVars, tlsVars, sendVars, passwdVars>>
ImapOnly ==
    UNCHANGED <<flagVars, lockVars, mdVars, syncVars, execVars, taskVars, builderVars,
                storeVars, peekVars, parseVars, tplVars, tlsVars, sendVars, passwdVars>>
ParseOnly ==
    UNCHANGED <<flagVars, lockVars, mdVars, syncVars, execVars, taskVars, builderVars,
                storeVars, peekVars, imapVars, tplVars, tlsVars, sendVars, passwdVars>>
TplOnly ==
    UNCHANGED <<flagVars, lockVars, mdVars, syncVars, execVars, taskVars, builderVars,
                storeVars, peekVars, imapVars, parseVars, tlsVars, sendVars,
                passwdVars>>
StartTlsOnly ==
    UNCHANGED <<flagVars, lockVars, mdVars, syncVars, execVars, taskVars, builderVars,
                storeVars, peekVars, imapVars, parseVars, tplVars, sendVars,
                passwdVars>>
SendOnly ==
    UNCHANGED <<flagVars, lockVars, mdVars, syncVars, execVars, taskVars, builderVars,
                storeVars, peekVars, imapVars, parseVars, tplVars, tlsVars, passwdVars>>
PasswdOnly ==
    UNCHANGED <<flagVars, lockVars, mdVars, syncVars, execVars, taskVars, builderVars,
                storeVars, peekVars, imapVars, parseVars, tplVars, tlsVars, sendVars>>

(***************************************************************************)
(* Helpers                                                                 *)
(***************************************************************************)
Range(s) == {s[i] : i \in 1..Len(s)}

\* the sequences that list every element of the set S exactly once
Orderings(S) ==
    {s \in [1..Cardinality(S) -> S] : \A i, j \in 1..Cardinality(S) : s[i] = s[j] => i = j}

RECURSIVE Concat(_)
Concat(ss) == IF ss = <<>> THEN <<>> ELSE Head(ss) \o Concat(Tail(ss))

(***************************************************************************)
(* Flag and Flags (email/envelope/flag/mod.rs)                             *)
(***************************************************************************)
\* bound: insertions made into each Flags value
MaxInserts == 3

\* A custom flag's name is a String: a sequence of bytes.
NameA  == <<97>>
NameAB == <<97, 98>>

Flag(kind, name) == [kind |-> kind, name |-> name]
Seen     == Flag("Seen", <<>>)
Answered == Flag("Answered", <<>>)
Flagged  == Flag("Flagged", <<>>)
Deleted  == Flag("Deleted", <<>>)
Draft    == Flag("Draft", <<>>)
Custom(name) == Flag("Custom", name)

\* the flags the Flags state machine inserts
FlagPool == {Seen, Flagged, Custom(NameA), Custom(NameAB)}

\* the variant's position in the enum: what derive(PartialOrd, Hash) compares and writes
Discriminant(f) ==
    CASE f.kind = "Seen"     -> 0
      [] f.kind = "Answered" -> 1
      [] f.kind = "Flagged"  -> 2
      [] f.kind = "Deleted"  -> 3
      [] f.kind = "Draft"    -> 4
      [] f.kind = "Custom"   -> 5

\* String's order: lexicographic on the bytes
RECURSIVE StrLess(_, _)
StrLess(a, b) ==
    IF b = <<>> THEN FALSE
    ELSE IF a = <<>> THEN TRUE
    ELSE IF Head(a) # Head(b) THEN Head(a) < Head(b)
    ELSE StrLess(Tail(a), Tail(b))

\* derive(PartialOrd) for Flag: the variant first, then the Custom payload
FlagLess(a, b) ==
    \/ Discriminant(a) < Discriminant(b)
    \/ Discriminant(a) = Discriminant(b) /\ StrLess(a.name, b.name)

\* Vec::sort_by(partial_cmp): insert each element after the last one not greater
RECURSIVE SortedInsert(_, _)
SortedInsert(sorted, f) ==
    IF sorted = <<>> THEN <<f>>
    ELSE IF FlagLess(f, Head(sorted)) THEN <<f>> \o sorted
    ELSE <<Head(sorted)>> \o SortedInsert(Tail(sorted), f)

RECURSIVE SortFlags(_)
SortFlags(s) == IF s = <<>> THEN <<>> ELSE SortedInsert(SortFlags(Tail(s)), Head(s))

\* derive(Hash) for Flag: the discriminant, and for Custom the bytes and 0xff
FlagWrites(f) ==
    IF f.kind = "Custom" THEN <<Discriminant(f)>> \o f.name \o <<255>>
    ELSE <<Discriminant(f)>>

\* Vec<&Flag>::hash: the length, then every element
VecWrites(v) == <<Len(v)>> \o Concat([i \in 1..Len(v) |-> FlagWrites(v[i])])

\* a mutant of FlagsHash: the table is hashed in iteration order
FlagsHashUnsorted(flags) == VecWrites(flags)

\* impl Hash for Flags: what the Hasher is fed (a Hasher is a function of it)
FlagsHash(flags) == VecWrites(SortFlags(flags))

\* HashSet::contains
FlagsContains(flags, f) == \E i \in 1..Len(flags) : flags[i] = f

\* derive(PartialEq) for Flags: HashSet's eq, same length and every member contained
FlagsEq(a, b) == Len(a) = Len(b) /\ \A i \in 1..Len(a) : FlagsContains(b, a[i])

\* HashSet::insert: a duplicate changes nothing; a new member lands anywhere in
\* the table, and the table may be rehashed into any order
FlagsInsert(flags, f) ==
    IF FlagsContains(flags, f) THEN {flags}
    ELSE Orderings(Range(flags) \cup {f})

FlagsInit ==
    /\ flagsA = <<>>
    /\ flagsB = <<>>
    /\ insertsA = 0
    /\ insertsB = 0

\* FromIterator<Flag> for Flags, one step of extend on the first value
InsertA(f) ==
    /\ insertsA < MaxInserts
    /\ flagsA' \in FlagsInsert(flagsA, f)
    /\ insertsA' = insertsA + 1
    /\ UNCHANGED <<flagsB, insertsB>>
    /\ FlagsOnly

\* FromIterator<Flag> for Flags, one step of extend on the second value
InsertB(f) ==
    /\ insertsB < MaxInserts
    /\ flagsB' \in FlagsInsert(flagsB, f)
    /\ insertsB' = insertsB + 1
    /\ UNCHANGED <<flagsA, insertsA>>
    /\ FlagsOnly

(***************************************************************************)
(* MaildirContextSync: Arc<Mutex<MaildirContext>> (maildir/mod.rs), and    *)
(* the capability calls that lock it: get_envelope, remove_messages,       *)
(* move_messages, check_up                                                 *)
(***************************************************************************)
\* bound: calls the tasks make, all together
MaxCalls == 3
\* bound: ids of an Id::Multiple
MaxIds == 2

Tasks  == {"t1", "t2", "t3"}
NoTask == "none"
Ops    == {"get_envelope", "remove_messages", "move_messages", "check_up"}

\* the places of a call at which the task holds the MutexGuard
Holding == {"resolve", "resolve_to", "backend"}

\* ids a call hands to the backend one by one: Id::iter() for remove and move,
\* the one find() of get_envelope, the one list_cur() walk of check_up
IdCounts(o) == IF o \in {"remove_messages", "move_messages"} THEN 0..MaxIds ELSE {1}

\* a mutant of CanAcquire: the lock is granted while another task holds it
CanAcquireWhileHeld(t) == queue # <<>> /\ Head(queue) = t

\* tokio::sync::Mutex::lock: granted when the mutex is free, in arrival order
CanAcquire(t) == owner = NoTask /\ queue # <<>> /\ Head(queue) = t

\* a mutant of OwnerAfterReturn: an error return keeps the guard alive
OwnerAfterReturnLeaky(t, ok) == IF ok THEN NoTask ELSE owner

\* the MutexGuard is a local of the call: it is dropped when the call returns,
\* by Ok(..) and by every `?`
OwnerAfterReturn(t, ok) == NoTask

LockInit ==
    /\ pc = [t \in Tasks |-> "idle"]
    /\ op = [t \in Tasks |-> "check_up"]
    /\ owner = NoTask
    /\ queue = <<>>
    /\ todo = [t \in Tasks |-> 0]
    /\ locks = [t \in Tasks |-> 0]
    /\ calls = 0
    /\ outcome = [t \in Tasks |-> "none"]

\* a task calls a capability and reaches self.ctx.lock().await
Call(t, o, n) ==
    /\ pc[t] = "idle"
    /\ calls < MaxCalls
    /\ pc' = [pc EXCEPT ![t] = "waiting"]
    /\ op' = [op EXCEPT ![t] = o]
    /\ todo' = [todo EXCEPT ![t] = n]
    /\ locks' = [locks EXCEPT ![t] = 0]
    /\ calls' = calls + 1
    /\ outcome' = [outcome EXCEPT ![t] = "running"]
    /\ queue' = Append(queue, t)
    /\ UNCHANGED owner
    /\ LockOnly

\* lock().await completes: the task owns the guard
Acquire(t) ==
    /\ pc[t] = "waiting"
    /\ CanAcquire(t)
    /\ owner' = t
    /\ queue' = Tail(queue)
    /\ locks' = [locks EXCEPT ![t] = locks[t] + 1]
    /\ pc' = [pc EXCEPT ![t] = IF op[t] = "check_up" THEN "backend" ELSE "resolve"]
    /\ UNCHANGED <<op, todo, calls, outcome>>
    /\ LockOnly

\* the call returns: the guard goes out of scope
Return(t, ok) ==
    /\ pc' = [pc EXCEPT ![t] = "idle"]
    /\ outcome' = [outcome EXCEPT ![t] = IF ok THEN "ok" ELSE "err"]
    /\ owner' = OwnerAfterReturn(t, ok)
    /\ todo' = [todo EXCEPT ![t] = 0]

\* the folder is resolved: the ids are handed to the backend one by one, and
\* an Id::Multiple without ids returns Ok at once
AfterResolve(t) ==
    IF todo[t] = 0 THEN Return(t, TRUE)
    ELSE /\ pc' = [pc EXCEPT ![t] = "backend"]
         /\ UNCHANGED <<owner, todo, outcome>>

\* get_maildir_from_folder_name(folder)? (get_mdir_from_dir(from_folder)? of move)
Resolve(t, ok) ==
    /\ pc[t] = "resolve"
    /\ IF ~ok THEN Return(t, FALSE)
       ELSE IF op[t] = "move_messages"
            THEN /\ pc' = [pc EXCEPT ![t] = "resolve_to"]
                 /\ UNCHANGED <<owner, todo, outcome>>
            ELSE AfterResolve(t)
    /\ UNCHANGED <<op, queue, locks, calls>>
    /\ LockOnly

\* get_mdir_from_dir(to_folder)? of move_messages
ResolveTo(t, ok) ==
    /\ pc[t] = "resolve_to"
    /\ IF ok THEN AfterResolve(t) ELSE Return(t, FALSE)
    /\ UNCHANGED <<op, queue, locks, calls>>
    /\ LockOnly

\* one backend call under the guard: mdir.find, mdir.delete, from_mdir.move_to,
\* root.list_cur; the first failure returns (ok_or_else(..)?, try_for_each(..)?)
BackendCall(t, ok) ==
    /\ pc[t] = "backend"
    /\ IF ~ok
       THEN Return(t, FALSE)
       ELSE IF todo[t] > 1
            THEN /\ todo' = [todo EXCEPT ![t] = todo[t] - 1]
                 /\ UNCHANGED <<pc, owner, outcome>>
            ELSE Return(t, TRUE)
    /\ UNCHANGED <<op, queue, locks, calls>>
    /\ LockOnly

\* what a task does by itself once it holds the guard (no await in between)
Proceed(t) == \E ok \in BOOLEAN : Resolve(t, ok) \/ ResolveTo(t, ok) \/ BackendCall(t, ok)

(***************************************************************************)
(* MaildirContext::get_maildir_from_folder_name (maildir/mod.rs)           *)
(* A folder name is a string: a sequence of characters.                    *)
(***************************************************************************)
NameInbox      == <<"i", "n", "b", "o", "x">>
NameInboxUpper == <<"I", "N", "B", "O", "X">>
NameWork       == <<"w">>
NameSub        == <<"a", "/", "b">>

\* the names a caller passes, and the names the alias table maps to
FolderNames  == {NameInbox, NameInboxUpper, NameWork}
AliasTargets == {NameWork, NameSub}
NoAlias  == <<>>
NoFolder == <<"?">>

\* u8::to_ascii_lowercase on the letters in use
LowerChar(c) ==
    CASE c = "I" -> "i" [] c = "N" -> "n" [] c = "B" -> "b"
      [] c = "O" -> "o" [] c = "X" -> "x" [] OTHER -> c

LowerName(n) == [i \in 1..Len(n) |-> LowerChar(n[i])]

\* FolderKind::matches_inbox: the name is the inbox alias, ASCII case ignored
MatchesInbox(folder) == LowerName(folder) = NameInbox

\* AccountConfig::get_folder_alias: the table's entry, else the name itself
GetFolderAlias(table, folder) ==
    IF folder \in DOMAIN table /\ table[folder] # NoAlias THEN table[folder] ELSE folder

\* urlencoding::encode: unreserved characters stay, every other byte becomes %XX
Unreserved == {"i", "n", "b", "o", "x", "I", "N", "B", "O", "X", "w", "a",
               "-", "_", ".", "~"}
EncodeChar(c) ==
    IF c \in Unreserved THEN <<c>>
    ELSE CASE c = "/" -> <<"%", "2", "F">>
           [] c = "%" -> <<"%", "2", "5">>
           [] OTHER   -> <<"%", "2", "0">>

\* maildir::encode_folder
EncodeFolder(folder) == Concat([i \in 1..Len(folder) |-> EncodeChar(folder[i])])

\* a path: under the root directory or by itself
RootPath == [base |-> "root", rel |-> <<>>]
PathOf(name) == [base |-> "none", rel |-> name]
\* Path::join: an absolute right-hand side replaces the left-hand side
RootJoin(name) ==
    IF name # <<>> /\ Head(name) = "/" THEN PathOf(name)
    ELSE [base |-> "root", rel |-> name]

\* the three candidates of a folder name that is not the inbox, in order
Candidates(name) ==
    <<PathOf(name), RootJoin(name), RootJoin(<<".">> \o EncodeFolder(name))>>

\* every path the model's file system may or may not hold
PathUniverse ==
    {RootPath} \cup UNION {Range(Candidates(n)) : n \in AliasTargets}

NoPath == [base |-> "none", rel |-> <<>>]
OkPath(p) == [ok |-> TRUE, path |-> p]
ErrExpandPathFailed == [ok |-> FALSE, path |-> NoPath]
NoResult == [ok |-> FALSE, path |-> [base |-> "unset", rel |-> <<>>]]

\* shellexpand_utils::try_shellexpand_path: the expanded path, or an error
TryShellexpandPath(fs, p) == IF p \in fs THEN OkPath(p) ELSE ErrExpandPathFailed

\* a mutant of FirstExpandable: a later candidate that expands is preferred
RECURSIVE LastExpandable(_, _)
LastExpandable(fs, cands) ==
    IF Len(cands) = 1 THEN TryShellexpandPath(fs, Head(cands))
    ELSE IF LastExpandable(fs, Tail(cands)).ok
         THEN LastExpandable(fs, Tail(cands))
         ELSE TryShellexpandPath(fs, Head(cands))

\* Result::or_else over the candidates
RECURSIVE FirstExpandable(_, _)
FirstExpandable(fs, cands) ==
    IF Len(cands) = 1 THEN TryShellexpandPath(fs, Head(cands))
    ELSE IF TryShellexpandPath(fs, Head(cands)).ok
         THEN TryShellexpandPath(fs, Head(cands))
         ELSE FirstExpandable(fs, Tail(cands))

\* a mutant of GetMaildirFromFolderName: the alias is looked up before the
\* inbox test
GetMaildirAliasFirst(table, fs, folder) ==
    IF MatchesInbox(GetFolderAlias(table, folder))
    THEN TryShellexpandPath(fs, RootPath)
    ELSE FirstExpandable(fs, Candidates(GetFolderAlias(table, folder)))

\* MaildirContext::get_maildir_from_folder_name
GetMaildirFromFolderName(table, fs, folder) ==
    IF MatchesInbox(folder)
    THEN TryShellexpandPath(fs, RootPath)
    ELSE FirstExpandable(fs, Candidates(GetFolderAlias(table, folder)))

\* MaildirContextBuilder::build has created the root directory; the account
\* configuration is any alias table
MaildirInit ==
    /\ aliases \in [FolderNames -> AliasTargets \cup {NoAlias}]
    /\ expandable \in {fs \cup {RootPath} : fs \in SUBSET (PathUniverse \ {RootPath})}
    /\ mdFolder = NoFolder
    /\ mdResult = NoResult

\* a caller resolves a folder name
GetMaildir(folder) ==
    /\ mdFolder' = folder
    /\ mdResult' = GetMaildirFromFolderName(aliases, expandable, folder)
    /\ UNCHANGED <<aliases, expandable>>
    /\ MaildirOnly

\* the file system changes under the context: a directory appears
MakeDir(p) ==
    /\ p \notin expandable
    /\ expandable' = expandable \cup {p}
    /\ mdFolder' = NoFolder
    /\ mdResult' = NoResult
    /\ UNCHANGED aliases
    /\ MaildirOnly

\* the file system changes under the context: a directory goes away
RemoveDir(p) ==
    /\ p \in expandable
    /\ expandable' = expandable \ {p}
    /\ mdFolder' = NoFolder
    /\ mdResult' = NoResult
    /\ UNCHANGED aliases
    /\ MaildirOnly

(***************************************************************************)
(* Synchronizer: the sync of one folder's envelopes and flags.             *)
(* envelope/flag/mod.rs re-exports sync::sync_all; the algorithm is        *)
(* modelled from the design (three-way diff, patch per side, fold of the   *)
(* applied hunks into the snapshot).                                       *)
(***************************************************************************)
\* bound: sync runs
MaxRuns == 2
\* bound: changes made to a backend from outside between runs
MaxChanges == 1

SyncIds   == {"e1"}
SyncFlags == {Seen, Flagged, Answered}
Sides     == {"left", "right"}

Absent  == [here |-> FALSE, flags |-> {}]
Env(fl) == [here |-> TRUE, flags |-> fl]
EnvValues == {Absent} \cup {Env(fl) : fl \in SUBSET SyncFlags}
Views == [SyncIds -> EnvValues]

Additions(a, x) == x \ a
Removals(a, x)  == a \ x

\* a mutant of MergeFlags: the union of both sides' flag sets
MergeFlagsUnion(a, l, r) == l \cup r

\* flags changed on both sides: the union of the additions and the union of
\* the removals, relative to the ancestor
MergeFlags(a, l, r) ==
    (a \cup Additions(a, l) \cup Additions(a, r)) \ (Removals(a, l) \cup Removals(a, r))

\* the merged target state of one envelope id; pol decides a delete on one
\* side against a flag change on the other, which the design leaves open
MergeEnvelope(pol, a, l, r) ==
    CASE ~l.here /\ ~r.here -> Absent
      [] l.here /\ r.here   -> Env(MergeFlags(a.flags, l.flags, r.flags))
      [] l.here /\ ~r.here  ->
            IF ~a.here THEN l                         \* added left
            ELSE IF l.flags = a.flags THEN Absent     \* deleted right
            ELSE IF pol = "keep" THEN l ELSE Absent
      [] ~l.here /\ r.here  ->
            IF ~a.here THEN r                         \* added right
            ELSE IF r.flags = a.flags THEN Absent     \* deleted left
            ELSE IF pol = "keep" THEN r ELSE Absent

Target(pol, snap, l, r) == [e \in SyncIds |-> MergeEnvelope(pol, snap[e], l[e], r[e])]

Hunk(side, o, e, fl) == [side |-> side, op |-> o, id |-> e, flags |-> fl]

\* a mutant of DiffEnvelope: flags the target lacks are left in place
DiffEnvelopeNoRemove(side, e, cur, tgt) ==
    CASE ~cur.here /\ ~tgt.here -> {}
      [] ~cur.here /\ tgt.here  -> {Hunk(side, "CreateEnvelope", e, tgt.flags)}
      [] cur.here /\ ~tgt.here  -> {Hunk(side, "DeleteEnvelope", e, {})}
      [] cur.here /\ tgt.here   ->
            {Hunk(side, "AddFlag", e, {f}) : f \in tgt.flags \ cur.flags}

\* the hunks that make one envelope of a side match the target
DiffEnvelope(side, e, cur, tgt) ==
    CASE ~cur.here /\ ~tgt.here -> {}
      [] ~cur.here /\ tgt.here  -> {Hunk(side, "CreateEnvelope", e, tgt.flags)}
      [] cur.here /\ ~tgt.here  -> {Hunk(side, "DeleteEnvelope", e, {})}
      [] cur.here /\ tgt.here   ->
            {Hunk(side, "AddFlag", e, {f}) : f \in tgt.flags \ cur.flags}
            \cup {Hunk(side, "RemoveFlag", e, {f}) : f \in cur.flags \ tgt.flags}

\* the patch of one side
Diff(side, cur, tgt) == UNION {DiffEnvelope(side, e, cur[e], tgt[e]) : e \in SyncIds}

\* a mutant of BuildPatch: the hunks are computed against the cached view
BuildPatchFromCache(pol, snap, l, r) ==
    Diff("left", snap, Target(pol, snap, l, r))
    \cup Diff("right", snap, Target(pol, snap, l, r))

\* the patches of both sides of one run
BuildPatch(pol, snap, l, r) ==
    Diff("left", l, Target(pol, snap, l, r))
    \cup Diff("right", r, Target(pol, snap, l, r))

\* the effect of one hunk on a view (a live backend, or the snapshot)
ApplyHunk(view, h) ==
    [view EXCEPT ![h.id] =
        CASE h.op = "CreateEnvelope" -> Env(h.flags)
          [] h.op = "DeleteEnvelope" -> Absent
          [] h.op = "AddFlag" ->
                IF view[h.id].here THEN Env(view[h.id].flags \cup h.flags) ELSE Absent
          [] h.op = "RemoveFlag" ->
                IF view[h.id].here THEN Env(view[h.id].flags \ h.flags) ELSE Absent]

RECURSIVE ApplyAll(_, _)
ApplyAll(view, hs) ==
    IF hs = {} THEN view
    ELSE LET h == CHOOSE x \in hs : TRUE
         IN  ApplyAll(ApplyHunk(view, h), hs \ {h})

\* a mutant of FoldSnapshot: every hunk of the patch is folded, failed or not
FoldSnapshotAll(snap, ok, all) == ApplyAll(snap, all)

\* the snapshot committed by a run: the old one with the applied hunks folded in
FoldSnapshot(snap, ok, all) == ApplyAll(snap, ok)

NoViews == [snap |-> [e \in SyncIds |-> Absent],
            left |-> [e \in SyncIds |-> Absent],
            right |-> [e \in SyncIds |-> Absent]]

\* any snapshot and any two backends
SyncInit ==
    /\ policy \in {"keep", "delete"}
    /\ snapshot \in Views
    /\ left \in Views
    /\ right \in Views
    /\ phase = "idle"
    /\ patch = {}
    /\ pending = {}
    /\ succeeded = {}
    /\ failed = {}
    /\ runs = 0
    /\ changes = 0
    /\ attempts = 0
    /\ start = NoViews
    /\ retryDue = {}
    /\ afterClean = FALSE

\* somebody changes one envelope of a live backend between two runs
ExternalChange(side, e, v) ==
    /\ phase \in {"idle", "done"}
    /\ changes < MaxChanges
    /\ IF side = "left"
       THEN left[e] # v /\ left' = [left EXCEPT ![e] = v] /\ UNCHANGED right
       ELSE right[e] # v /\ right' = [right EXCEPT ![e] = v] /\ UNCHANGED left
    /\ changes' = changes + 1
    /\ phase' = "idle"
    /\ UNCHANGED <<policy, snapshot, patch, pending, succeeded, failed, runs,
                   attempts, start, retryDue, afterClean>>
    /\ SyncOnly

\* a run lists the views, merges them and builds the patch of each side
StartSync ==
    /\ phase \in {"idle", "done"}
    /\ runs < MaxRuns
    /\ patch' = BuildPatch(policy, snapshot, left, right)
    /\ pending' = patch'
    /\ succeeded' = {}
    /\ failed' = {}
    /\ attempts' = 0
    /\ start' = [snap |-> snapshot, left |-> left, right |-> right]
    /\ retryDue' = IF phase = "done" THEN failed ELSE {}
    /\ afterClean' = (phase = "done" /\ failed = {})
    /\ phase' = "applying"
    /\ UNCHANGED <<policy, snapshot, left, right, runs, changes>>
    /\ SyncOnly

\* the executor runs a hunk and the backend applies it
HunkSucceeds(h) ==
    /\ phase = "applying"
    /\ h \in pending
    /\ IF h.side = "left"
       THEN left' = ApplyHunk(left, h) /\ UNCHANGED right
       ELSE right' = ApplyHunk(right, h) /\ UNCHANGED left
    /\ pending' = pending \ {h}
    /\ succeeded' = succeeded \cup {h}
    /\ attempts' = attempts + 1
    /\ UNCHANGED <<policy, snapshot, phase, patch, failed, runs, changes, start,
                   retryDue, afterClean>>
    /\ SyncOnly

\* the executor runs a hunk and the backend refuses it
HunkFails(h) ==
    /\ phase = "applying"
    /\ h \in pending
    /\ pending' = pending \ {h}
    /\ failed' = failed \cup {h}
    /\ attempts' = attempts + 1
    /\ UNCHANGED <<policy, snapshot, left, right, phase, patch, succeeded, runs,
                   changes, start, retryDue, afterClean>>
    /\ SyncOnly

\* the executor is done: the applied hunks are folded into the snapshot
Commit ==
    /\ phase = "applying"
    /\ pending = {}
    /\ snapshot' = FoldSnapshot(snapshot, succeeded, patch)
    /\ phase' = "done"
    /\ runs' = runs + 1
    /\ UNCHANGED <<policy, left, right, patch, pending, succeeded, failed, changes,
                   attempts, start, retryDue, afterClean>>
    /\ SyncOnly

(***************************************************************************)
(* Patch Executor: the hunks of one patch run as a bounded set of          *)
(* concurrent operations against one backend (modelled from the design).   *)
(***************************************************************************)
\* bound: item-level hunks per folder
MaxItems == 2
\* bound: hunks in flight at a time
MaxInFlight == 2

XFolders == {"F1", "F2"}
XModes   == {"create", "keep", "delete"}

XHunk(kind, folder, item) == [kind |-> kind, folder |-> folder, item |-> item]
ItemHunks(folder) == {XHunk("Item", folder, k) : k \in 1..MaxItems}

\* the patch: a folder is created and filled, only filled, or filled and deleted
XPatch(mode) ==
    UNION {ItemHunks(f)
           \cup (IF mode[f] = "create" THEN {XHunk("CreateFolder", f, 0)} ELSE {})
           \cup (IF mode[f] = "delete" THEN {XHunk("DeleteFolder", f, 0)} ELSE {})
           : f \in XFolders}

Completed(h) == xStatus[h] \in {"ok", "failed", "skipped"}
Dispatched(h) == xStatus[h] \in {"inflight", "ok", "failed"}
InFlight == {h \in DOMAIN xStatus : xStatus[h] = "inflight"}

\* a mutant of Dispatchable: hunks are dispatched in any order
DispatchableAnyOrder(h) == TRUE

\* the ordering constraint of the executor
Dispatchable(h) ==
    CASE h.kind = "Item"         -> h.folder \in xExists
      [] h.kind = "DeleteFolder" -> \A i \in ItemHunks(h.folder) : Completed(i)
      [] h.kind = "CreateFolder" -> TRUE

ExecInit ==
    /\ xMode \in [XFolders -> XModes]
    /\ xExists = {f \in XFolders : xMode[f] # "create"}
    /\ xStatus = [h \in XPatch(xMode) |-> "pending"]

\* the executor starts a hunk
Dispatch(h) ==
    /\ xStatus[h] = "pending"
    /\ Cardinality(InFlight) < MaxInFlight
    /\ Dispatchable(h)
    /\ xStatus' = [xStatus EXCEPT ![h] = "inflight"]
    /\ UNCHANGED <<xMode, xExists>>
    /\ ExecOnly

\* a hunk in flight ends; a folder hunk that succeeded changes what exists
Complete(h, ok) ==
    /\ xStatus[h] = "inflight"
    /\ xStatus' = [xStatus EXCEPT ![h] = IF ok THEN "ok" ELSE "failed"]
    /\ xExists' = CASE ok /\ h.kind = "CreateFolder" -> xExists \cup {h.folder}
                    [] ok /\ h.kind = "DeleteFolder" -> xExists \ {h.folder}
                    [] OTHER -> xExists
    /\ UNCHANGED xMode
    /\ ExecOnly

\* the folder of an item hunk could not be created: the hunk is given up
Skip(h) ==
    /\ xStatus[h] = "pending"
    /\ h.kind = "Item"
    /\ XHunk("CreateFolder", h.folder, 0) \in DOMAIN xStatus
    /\ xStatus[XHunk("CreateFolder", h.folder, 0)] = "failed"
    /\ xStatus' = [xStatus EXCEPT ![h] = "skipped"]
    /\ UNCHANGED <<xMode, xExists>>
    /\ ExecOnly

(***************************************************************************)
(* Folder tasks of one run: one task per folder, a bounded number in       *)
(* flight, gathered at the end (modelled from the design); the error of    *)
(* the run is folder::Error::FolderTasksFailed (folder/error.rs).          *)
(***************************************************************************)
\* bound: folder tasks in flight at a time
MaxTasks == 2
\* bound: hunks a folder task applies
MaxWork == 2

TFolders == {"f1", "f2", "f3"}

NoneYet == [kind |-> "none", covers |-> {}]
RunOk   == [kind |-> "ok", covers |-> {}]

\* Error::FolderTasksFailed(JoinError): the error carries the JoinError of
\* one task
FolderTasksFailed(f) == [kind |-> "FolderTasksFailed", covers |-> {f}]

Running == {f \in TFolders : task[f] = "running"}
FailedTasks == {f \in TFolders : task[f] = "failed"}

TaskInit ==
    /\ task = [f \in TFolders |-> "queued"]
    /\ progress = [f \in TFolders |-> 0]
    /\ store = [f \in TFolders |-> 0]
    /\ result = NoneYet

\* a folder task is spawned when the concurrency limit allows it
Spawn(f) ==
    /\ task[f] = "queued"
    /\ Cardinality(Running) < MaxTasks
    /\ task' = [task EXCEPT ![f] = "running"]
    /\ UNCHANGED <<progress, store, result>>
    /\ TasksOnly

\* a running task applies a hunk
Work(f) ==
    /\ task[f] = "running"
    /\ progress[f] < MaxWork
    /\ progress' = [progress EXCEPT ![f] = progress[f] + 1]
    /\ UNCHANGED <<task, store, result>>
    /\ TasksOnly

\* a running task ends well and commits its folder's snapshot
Finish(f) ==
    /\ task[f] = "running"
    /\ task' = [task EXCEPT ![f] = "ok"]
    /\ store' = [store EXCEPT ![f] = progress[f]]
    /\ UNCHANGED <<progress, result>>
    /\ TasksOnly

\* a running task fails: nothing is committed for its folder
Fail(f) ==
    /\ task[f] = "running"
    /\ task' = [task EXCEPT ![f] = "failed"]
    /\ UNCHANGED <<progress, store, result>>
    /\ TasksOnly

\* every task has been joined: the run returns
Gather ==
    /\ result = NoneYet
    /\ \A f \in TFolders : task[f] \in {"ok", "failed"}
    /\ IF FailedTasks = {}
       THEN result' = RunOk
       ELSE \E f \in FailedTasks : result' = FolderTasksFailed(f)
    /\ UNCHANGED <<task, progress, store>>
    /\ TasksOnly

(***************************************************************************)
(* MaildirContextBuilder: impl BackendContextBuilder (maildir/mod.rs)      *)
(***************************************************************************)
\* bound: capability questions put to the builder
MaxQueries == 2

\* the account and maildir configurations a builder is made with
BuilderConfigs == {"account1/root1", "account2/root2"}

\* the capability methods the impl defines
Overridden ==
    {"check_up", "add_folder", "list_folders", "expunge_folder", "delete_folder",
     "get_envelope", "list_envelopes", "watch_envelopes",
     "add_flags", "set_flags", "remove_flags",
     "add_message", "peek_messages", "get_messages", "copy_messages",
     "move_messages", "delete_messages", "remove_messages"}
\* the capability method the impl leaves to the trait (commented out, TODO)
NotOverridden == {"purge_folder"}
Capabilities == Overridden \cup NotOverridden

\* BackendContextBuilder's provided method: the capability is not supported
TraitDefault == "unsupported"

\* a mutant of BuilderAnswer: check_up is offered only once the root exists
BuilderAnswerWhenBuilt(config, built, cap) ==
    IF cap = "check_up" THEN (IF built = "ok" THEN "feature" ELSE "unsupported")
    ELSE IF cap \in Overridden THEN "feature" ELSE TraitDefault

\* fn <cap>(&self) -> Option<BackendFeature<..>>: Some(Arc::new(..::some_new_boxed))
\* in every method the impl defines; &self is not read
BuilderAnswer(config, built, cap) ==
    IF cap \in Overridden THEN "feature" ELSE TraitDefault

BuilderInit ==
    /\ bConfig \in BuilderConfigs
    /\ bBuilt = "no"
    /\ bUsed = FALSE
    /\ bLog = {}

\* MaildirContextBuilder::new: a builder for another configuration
NewBuilder(config) ==
    /\ config # bConfig
    /\ bConfig' = config
    /\ bBuilt' = "no"
    /\ bUsed' = FALSE
    /\ UNCHANGED bLog
    /\ BuilderOnly

\* a caller asks the builder for a capability
Query(cap) ==
    /\ Cardinality(bLog) < MaxQueries
    /\ bLog' = bLog \cup {[cap |-> cap, config |-> bConfig,
                           built |-> IF bUsed THEN "used" ELSE bBuilt,
                           answer |-> BuilderAnswer(bConfig, bBuilt, cap)]}
    /\ bLog' # bLog
    /\ UNCHANGED <<bConfig, bBuilt, bUsed>>
    /\ BuilderOnly

\* build (on a clone of the builder): root.create_dirs()? fails or the context is made
Build(ok) ==
    /\ bBuilt = "no"
    /\ bBuilt' = IF ok THEN "ok" ELSE "failed"
    /\ UNCHANGED <<bConfig, bUsed, bLog>>
    /\ BuilderOnly

\* an operation is made on the built context
UseContext ==
    /\ bBuilt = "ok"
    /\ ~bUsed
    /\ bUsed' = TRUE
    /\ UNCHANGED <<bConfig, bBuilt, bLog>>
    /\ BuilderOnly

(***************************************************************************)
(* The Maildir item operations: remove_messages, move_messages and         *)
(* get_envelope (message/remove/maildir.rs, message/move_/maildir.rs,      *)
(* envelope/get/maildir.rs) on the maildirs of one context                 *)
(***************************************************************************)
\* bound: ids of an Id::Multiple handed to one call
MaxIdList == 2

NameGone == <<"x">>
\* the folder names a caller passes: two resolve to a maildir under the
\* root, the inbox resolves to the root, one resolves to nothing
SFolders == {NameInbox, NameWork, NameSub, NameGone}
StoreAliases == [n \in FolderNames |-> NoAlias]
StoreFs == {RootPath, RootJoin(NameWork), RootJoin(<<".">> \o EncodeFolder(NameSub))}
SDirs == StoreFs
\* get_maildir_from_folder_name(folder) in this context
SResolve(folder) == GetMaildirFromFolderName(StoreAliases, StoreFs, folder)

MsgIds == {"m1", "m2"}
\* what is stored under an id: the operations never read it
Bodies == {"b1"}
NoEntry == "none"
\* Id::Single(id) and Id::Multiple(ids), as the list Id::iter() walks
IdLists == UNION {[1..n -> MsgIds] : n \in 0..MaxIdList}

\* Maildir::find(id): the entry whose id is id, in new or cur
MdFind(st, dir, id) == st[dir][id]

\* Maildir::delete(id): the entry is found and its file is removed
MdDelete(st, dir, id, io) ==
    IF MdFind(st, dir, id) = NoEntry THEN [ok |-> FALSE, st |-> st]
    ELSE IF ~io THEN [ok |-> FALSE, st |-> st]
    ELSE [ok |-> TRUE, st |-> [st EXCEPT ![dir][id] = NoEntry]]

\* Maildir::move_to(id, target): the entry is found and its file is renamed
\* into the target, replacing a file of the same name there
MdMoveTo(st, from, to, id, io) ==
    IF MdFind(st, from, id) = NoEntry THEN [ok |-> FALSE, st |-> st]
    ELSE IF from = to THEN [ok |-> TRUE, st |-> st]
    ELSE IF ~io THEN [ok |-> FALSE, st |-> st]
    ELSE [ok |-> TRUE, st |-> [st EXCEPT ![to][id] = st[from][id], ![from][id] = NoEntry]]

SOk == [kind |-> "Ok"]
RemoveMaildirMessageError(folder, id) ==
    [kind |-> "RemoveMaildirMessageError", folder |-> folder, id |-> id]
MoveMessagesError(from, to, id) ==
    [kind |-> "MoveMessagesError", from |-> from, to |-> to, id |-> id]
GetEnvelopeMaildirError(path, id) ==
    [kind |-> "GetEnvelopeMaildirError", path |-> path, id |-> id]
SExpandPathFailed == [kind |-> "ExpandPathFailed"]
\* Envelope::from_mdir_entry
EnvelopeOf(id, entry) == [kind |-> "Envelope", id |-> id, entry |-> entry]

\* a mutant of RemoveEach: the result of delete is dropped
RECURSIVE RemoveEachIgnoringErrors(_, _, _, _, _)
RemoveEachIgnoringErrors(st, folder, dir, ids, failAt) ==
    IF ids = <<>> THEN [res |-> SOk, st |-> st]
    ELSE RemoveEachIgnoringErrors(MdDelete(st, dir, Head(ids), failAt # 1).st,
                                  folder, dir, Tail(ids), failAt - 1)

\* id.iter().try_for_each(|id| mdir.delete(id).map_err(..))?: the ids in order,
\* stopping at the first that fails; failAt is the position at which the file
\* system refuses (0: nowhere)
RECURSIVE RemoveEach(_, _, _, _, _)
RemoveEach(st, folder, dir, ids, failAt) ==
    IF ids = <<>> THEN [res |-> SOk, st |-> st]
    ELSE LET deleted == MdDelete(st, dir, Head(ids), failAt # 1) IN
         IF deleted.ok
         THEN RemoveEach(deleted.st, folder, dir, Tail(ids), failAt - 1)
         ELSE [res |-> RemoveMaildirMessageError(folder, Head(ids)), st |-> st]

\* a mutant of RemoveMessagesOn: the ids are erased in the root maildir
RemoveMessagesOnRoot(st, folder, ids, failAt) ==
    LET mdir == SResolve(folder) IN
    IF ~mdir.ok THEN [res |-> SExpandPathFailed, st |-> st]
    ELSE RemoveEach(st, folder, RootPath, ids, failAt)

\* remove_messages(folder, id)
RemoveMessagesOn(st, folder, ids, failAt) ==
    LET mdir == SResolve(folder) IN
    IF ~mdir.ok THEN [res |-> SExpandPathFailed, st |-> st]
    ELSE RemoveEach(st, folder, mdir.path, ids, failAt)

\* a mutant of MoveEach: the ids after the one that failed are moved too
RECURSIVE MoveEachPastFailures(_, _, _, _, _, _, _)
MoveEachPastFailures(st, from, to, fromDir, toDir, ids, failAt) ==
    IF ids = <<>> THEN [res |-> SOk, st |-> st]
    ELSE LET moved == MdMoveTo(st, fromDir, toDir, Head(ids), failAt # 1)
             rest == MoveEachPastFailures(moved.st, from, to, fromDir, toDir, Tail(ids),
                                          failAt - 1)
         IN  IF moved.ok THEN rest
             ELSE [res |-> MoveMessagesError(from, to, Head(ids)), st |-> rest.st]

\* id.iter().try_for_each(|id| from_mdir.move_to(id, &to_mdir).map_err(..))?
RECURSIVE MoveEach(_, _, _, _, _, _, _)
MoveEach(st, from, to, fromDir, toDir, ids, failAt) ==
    IF ids = <<>> THEN [res |-> SOk, st |-> st]
    ELSE LET moved == MdMoveTo(st, fromDir, toDir, Head(ids), failAt # 1) IN
         IF moved.ok
         THEN MoveEach(moved.st, from, to, fromDir, toDir, Tail(ids), failAt - 1)
         ELSE [res |-> MoveMessagesError(from, to, Head(ids)), st |-> st]

\* move_messages(from_folder, to_folder, id)
MoveMessagesOn(st, from, to, ids, failAt) ==
    LET from_mdir == SResolve(from)
        to_mdir == SResolve(to)
    IN  IF ~from_mdir.ok \/ ~to_mdir.ok THEN [res |-> SExpandPathFailed, st |-> st]
        ELSE MoveEach(st, from, to, from_mdir.path, to_mdir.path, ids, failAt)

\* a mutant of GetEnvelopeOn: the first entry of the folder is taken
GetEnvelopeFirstEntry(st, folder, id) ==
    LET mdir == SResolve(folder) IN
    IF ~mdir.ok THEN SExpandPathFailed
    ELSE IF \A i \in MsgIds : st[mdir.path][i] = NoEntry
         THEN GetEnvelopeMaildirError(mdir.path, id)
         ELSE LET first == CHOOSE i \in MsgIds : st[mdir.path][i] # NoEntry
              IN  EnvelopeOf(first, st[mdir.path][first])

\* get_envelope(folder, id)
GetEnvelopeOn(st, folder, id) ==
    LET mdir == SResolve(folder) IN
    IF ~mdir.ok THEN SExpandPathFailed
    ELSE IF MdFind(st, mdir.path, id) = NoEntry
         THEN GetEnvelopeMaildirError(mdir.path, id)
         ELSE EnvelopeOf(id, MdFind(st, mdir.path, id))

NoCall == [op |-> "none"]
NoStore == [d \in SDirs |-> [i \in MsgIds |-> NoEntry]]

StoreInit ==
    /\ sStore \in [SDirs -> [MsgIds -> Bodies \cup {NoEntry}]]
    /\ sBefore = sStore
    /\ sCall = NoCall
    /\ sResult = SOk
    /\ sRemoved = {}

\* the pairs of sRemoved that are still absent after a call
StillAbsent(st) == {p \in sRemoved : st[p[1]][p[2]] = NoEntry}

\* a task calls remove_messages; the previous call has returned to its caller
RemoveMessages(folder, ids, failAt) ==
    LET r == RemoveMessagesOn(sStore, folder, ids, failAt) IN
    /\ sCall = NoCall
    /\ failAt <= Len(ids)
    /\ sBefore' = sStore
    /\ sCall' = [op |-> "remove_messages", folder |-> folder, ids |-> ids]
    /\ sStore' = r.st
    /\ sResult' = r.res
    /\ sRemoved' = IF r.res = SOk
                   THEN sRemoved \cup {<<SResolve(folder).path, ids[k]>> : k \in 1..Len(ids)}
                   ELSE StillAbsent(r.st)
    /\ StoreOnly

\* a task calls move_messages
MoveMessages(from, to, ids, failAt) ==
    LET r == MoveMessagesOn(sStore, from, to, ids, failAt) IN
    /\ sCall = NoCall
    /\ failAt <= Len(ids)
    /\ sBefore' = sStore
    /\ sCall' = [op |-> "move_messages", from |-> from, to |-> to, ids |-> ids]
    /\ sStore' = r.st
    /\ sResult' = r.res
    /\ sRemoved' = StillAbsent(r.st)
    /\ StoreOnly

\* a task calls get_envelope
GetEnvelope(folder, id) ==
    /\ sCall = NoCall
    /\ sBefore' = sStore
    /\ sCall' = [op |-> "get_envelope", folder |-> folder, id |-> id]
    /\ sResult' = GetEnvelopeOn(sStore, folder, id)
    /\ UNCHANGED <<sStore, sRemoved>>
    /\ StoreOnly

\* the caller has taken the result: the context waits for the next call
TakeResult ==
    /\ sCall # NoCall
    /\ sBefore' = sStore
    /\ sCall' = NoCall
    /\ sResult' = SOk
    /\ UNCHANGED <<sStore, sRemoved>>
    /\ StoreOnly

(***************************************************************************)
(* PeekNotmuchMessages::peek_messages (message/peek/notmuch.rs)            *)
(***************************************************************************)
NTags == {"unread", "flagged"}
PeekFolders == {NameInbox, NameWork}
\* where a call can be refused by the database or the file system
PeekFailures == {"none", "open_db", "find_message", "close"}

NDb(tags, indexed, files) == [tags |-> tags, indexed |-> indexed, files |-> files]

OpenDbError == [kind |-> "OpenDatabaseError"]
FindMessageError == [kind |-> "NotmuchError"]
FindEnvelopeEmptyNotmuchError(folder, id) ==
    [kind |-> "FindEnvelopeEmptyNotmuchError", folder |-> folder, id |-> id]
ReadError == [kind |-> "IoError"]
CloseDbError == [kind |-> "CloseDatabaseError"]
Messages(raws) == [kind |-> "Messages", raws |-> raws]
\* the bytes of the message file of id
RawOf(id) == [kind |-> "Raw", id |-> id]

\* a mutant of PeekOne: the message found is marked as read, as a get does
PeekOneMarkingSeen(db, folder, id, refused) ==
    IF refused THEN [res |-> FindMessageError, db |-> db]
    ELSE IF id \notin db.indexed THEN [res |-> FindEnvelopeEmptyNotmuchError(folder, id), db |-> db]
    ELSE IF id \notin db.files THEN [res |-> ReadError, db |-> db]
    ELSE [res |-> RawOf(id), db |-> [db EXCEPT !.tags[id] = @ \ {"unread"}]]

\* the closure of the map: db.find_message(id)?.ok_or_else(..)?.filename(),
\* then fs::read(path)?
PeekOne(db, folder, id, refused) ==
    IF refused THEN [res |-> FindMessageError, db |-> db]
    ELSE IF id \notin db.indexed THEN [res |-> FindEnvelopeEmptyNotmuchError(folder, id), db |-> db]
    ELSE IF id \notin db.files THEN [res |-> ReadError, db |-> db]
    ELSE [res |-> RawOf(id), db |-> db]

\* id.iter().map(..).collect::<Result<Vec<_>>>()?: the ids in order, up to the
\* first error; failAt is the position at which find_message is refused
RECURSIVE PeekEach(_, _, _, _, _)
PeekEach(db, folder, ids, failAt, raws) ==
    IF ids = <<>> THEN [res |-> Messages(raws), db |-> db]
    ELSE LET one == PeekOne(db, folder, Head(ids), failAt = 1) IN
         IF one.res.kind # "Raw"
         THEN [res |-> one.res, db |-> one.db]
         ELSE PeekEach(one.db, folder, Tail(ids), failAt - 1, Append(raws, one.res))

\* peek_messages(folder, id)
PeekMessagesOn(db, folder, ids, failure, failAt) ==
    IF failure = "open_db" THEN [res |-> OpenDbError, db |-> db]
    ELSE LET msgs == PeekEach(db, folder, ids, IF failure = "find_message" THEN failAt ELSE 0, <<>>) IN
         IF msgs.res.kind # "Messages" THEN msgs
         ELSE IF failure = "close" THEN [res |-> CloseDbError, db |-> msgs.db]
         ELSE msgs

NoDb == NDb([i \in MsgIds |-> {}], {}, {})

PeekInit ==
    /\ nTags \in [MsgIds -> SUBSET NTags]
    /\ nIndexed \in SUBSET MsgIds
    /\ nFiles \in SUBSET MsgIds
    /\ nBefore = NDb(nTags, nIndexed, nFiles)
    /\ nCall = NoCall
    /\ nResult = SOk

\* a task calls peek_messages
PeekMessages(folder, ids, failure, failAt) ==
    LET r == PeekMessagesOn(NDb(nTags, nIndexed, nFiles), folder, ids, failure, failAt) IN
    /\ nCall = NoCall
    /\ failAt <= Len(ids)
    /\ (failure = "find_message") <=> (failAt > 0)
    /\ nBefore' = NDb(nTags, nIndexed, nFiles)
    /\ nCall' = [op |-> "peek_messages", folder |-> folder, ids |-> ids]
    /\ nTags' = r.db.tags
    /\ nIndexed' = r.db.indexed
    /\ nFiles' = r.db.files
    /\ nResult' = r.res
    /\ PeekOnly

\* the caller has taken the result
TakePeeked ==
    /\ nCall # NoCall
    /\ nBefore' = NDb(nTags, nIndexed, nFiles)
    /\ nCall' = NoCall
    /\ nResult' = SOk
    /\ UNCHANGED <<nTags, nIndexed, nFiles>>
    /\ PeekOnly

(***************************************************************************)
(* GetImapMessages::get_messages (message/get/imap.rs)                     *)
(***************************************************************************)
\* bound: ids of an Id::Multiple
MaxUidList == 2

\* the id strings a caller passes, as sequences of characters
UidStrings ==
    {<<"1">>, <<"2">>, <<"1", "2">>, <<"1", ":", "2">>, <<"*">>,
     <<"0">>, <<"x">>, <<>>}
Digits == {"0", "1", "2"}
DigitValue(c) == CASE c = "0" -> 0 [] c = "1" -> 1 [] c = "2" -> 2

RECURSIVE DecimalValue(_)
DecimalValue(s) ==
    IF s = <<>> THEN 0 ELSE 10 * DecimalValue(SubSeq(s, 1, Len(s) - 1)) + DigitValue(s[Len(s)])

\* SeqOrUid::try_from(&str): "*" or a non-zero number
SeqOrUidOk(s) ==
    \/ s = <<"*">>
    \/ s # <<>> /\ (\A i \in 1..Len(s) : s[i] \in Digits) /\ DecimalValue(s) # 0
\* the value: 0 stands for '*', the largest number in use
SeqOrUid(s) == IF s = <<"*">> THEN 0 ELSE DecimalValue(s)

\* Sequence::try_from(&str): one value, or two values around ':'
SequenceTryFrom(s) ==
    LET colons == {i \in 1..Len(s) : s[i] = ":"} IN
    IF colons = {}
    THEN IF SeqOrUidOk(s) THEN [ok |-> TRUE, seq |-> <<SeqOrUid(s)>>]
         ELSE [ok |-> FALSE, seq |-> <<>>]
    ELSE LET c == CHOOSE i \in colons : \A j \in colons : i <= j
             a == SubSeq(s, 1, c - 1)
             b == SubSeq(s, c + 1, Len(s))
         IN  IF SeqOrUidOk(a) /\ SeqOrUidOk(b)
             THEN [ok |-> TRUE, seq |-> <<SeqOrUid(a), SeqOrUid(b)>>]
             ELSE [ok |-> FALSE, seq |-> <<>>]

IdSingle(s) == [kind |-> "Single", ids |-> <<s>>]
IdMultiple(ss) == [kind |-> "Multiple", ids |-> ss]
ImapIds ==
    {IdSingle(s) : s \in UidStrings}
    \cup {IdMultiple(ss) : ss \in UNION {[1..n -> UidStrings] : n \in 0..MaxUidList}}

Panic == [kind |-> "Panic", uids |-> <<>>]
ImapError(what) == [kind |-> "Error", uids |-> <<>>, what |-> what]
Fetched(uids) == [kind |-> "Messages", uids |-> uids]

\* ids.iter().filter_map(|id| Sequence::try_from(id).ok()).collect::<Vec<_>>()
RECURSIVE FilterMapSequences(_)
FilterMapSequences(ss) ==
    IF ss = <<>> THEN <<>>
    ELSE IF SequenceTryFrom(Head(ss)).ok
         THEN <<SequenceTryFrom(Head(ss)).seq>> \o FilterMapSequences(Tail(ss))
         ELSE FilterMapSequences(Tail(ss))

\* let uids: SequenceSet = match id { .. }: Single unwraps the parse; Multiple
\* drops what does not parse and unwraps the conversion of the Vec, which
\* fails on an empty Vec
UidsOf(id) ==
    IF id.kind = "Single"
    THEN IF SequenceTryFrom(id.ids[1]).ok
         THEN [panic |-> FALSE, uids |-> <<SequenceTryFrom(id.ids[1]).seq>>]
         ELSE [panic |-> TRUE, uids |-> <<>>]
    ELSE IF FilterMapSequences(id.ids) # <<>>
         THEN [panic |-> FALSE, uids |-> FilterMapSequences(id.ids)]
         ELSE [panic |-> TRUE, uids |-> <<>>]

\* get_messages(folder, id): the uids, then select_mailbox(..)? and
\* fetch_messages(uids)?
GetMessagesOn(id, selectOk, fetchOk) ==
    LET uids == UidsOf(id) IN
    IF uids.panic THEN Panic
    ELSE IF ~selectOk THEN ImapError("SelectMailbox")
    ELSE IF ~fetchOk THEN ImapError("FetchMessages")
    ELSE Fetched(uids.uids)

ImapInit ==
    /\ gCall = NoCall
    /\ gOutcome = Fetched(<<>>)

\* a task calls get_messages
GetMessages(id, selectOk, fetchOk) ==
    /\ gCall = NoCall
    /\ gCall' = [op |-> "get_messages", id |-> id, selectOk |-> selectOk, fetchOk |-> fetchOk]
    /\ gOutcome' = GetMessagesOn(id, selectOk, fetchOk)
    /\ ImapOnly

\* the caller has taken the result (or the panic has unwound the task)
TakeMessages ==
    /\ gCall # NoCall
    /\ gCall' = NoCall
    /\ gOutcome' = Fetched(<<>>)
    /\ ImapOnly

(***************************************************************************)
(* Flag and Flags from text: From<&str> and FromStr                        *)
(* (email/envelope/flag/mod.rs); a text is a sequence of characters        *)
(***************************************************************************)
\* bound: tokens of a flag text
MaxTokens == 2

LowerLetters ==
    <<"a", "b", "c", "d", "e", "f", "g", "h", "i", "j", "k", "l", "m",
      "n", "o", "p", "q", "r", "s", "t", "u", "v", "w", "x", "y", "z">>
UpperLetters ==
    <<"A", "B", "C", "D", "E", "F", "G", "H", "I", "J", "K", "L", "M",
      "N", "O", "P", "Q", "R", "S", "T", "U", "V", "W", "X", "Y", "Z">>
\* u8::to_ascii_lowercase and u8::to_ascii_uppercase
ToAsciiLowercase(c) ==
    IF \E i \in 1..26 : UpperLetters[i] = c
    THEN LowerLetters[CHOOSE i \in 1..26 : UpperLetters[i] = c] ELSE c
ToAsciiUppercase(c) ==
    IF \E i \in 1..26 : LowerLetters[i] = c
    THEN UpperLetters[CHOOSE i \in 1..26 : LowerLetters[i] = c] ELSE c

\* a mutant of EqIgnoreAsciiCase: the bytes are compared as they are
EqExact(a, b) == a = b

\* str::eq_ignore_ascii_case
EqIgnoreAsciiCase(a, b) ==
    /\ Len(a) = Len(b)
    /\ \A i \in 1..Len(a) : ToAsciiLowercase(a[i]) = ToAsciiLowercase(b[i])

\* char::is_whitespace on the characters in use
WhiteSpace == {" ", "\t", "\n"}

\* str::trim: leading and trailing whitespace removed
RECURSIVE TrimStart(_)
TrimStart(s) == IF s # <<>> /\ Head(s) \in WhiteSpace THEN TrimStart(Tail(s)) ELSE s
RECURSIVE TrimEnd(_)
TrimEnd(s) ==
    IF s # <<>> /\ s[Len(s)] \in WhiteSpace THEN TrimEnd(SubSeq(s, 1, Len(s) - 1)) ELSE s
Trim(s) == TrimEnd(TrimStart(s))

\* str::split_whitespace: the maximal runs of characters that are not whitespace
RECURSIVE SplitWhitespaceFrom(_, _)
SplitWhitespaceFrom(s, token) ==
    IF s = <<>> THEN (IF token = <<>> THEN <<>> ELSE <<token>>)
    ELSE IF Head(s) \in WhiteSpace
         THEN (IF token = <<>> THEN <<>> ELSE <<token>>) \o SplitWhitespaceFrom(Tail(s), <<>>)
         ELSE SplitWhitespaceFrom(Tail(s), Append(token, Head(s)))
SplitWhitespace(s) == SplitWhitespaceFrom(s, <<>>)

WordSeen == <<"s", "e", "e", "n">>
WordAnswered == <<"a", "n", "s", "w", "e", "r", "e", "d">>
WordReplied == <<"r", "e", "p", "l", "i", "e", "d">>
WordFlagged == <<"f", "l", "a", "g", "g", "e", "d">>
WordDeleted == <<"d", "e", "l", "e", "t", "e", "d">>
WordTrashed == <<"t", "r", "a", "s", "h", "e", "d">>
WordDraft == <<"d", "r", "a", "f", "t">>
WordFoo == <<"f", "o", "o">>
WordSeenX == <<"s", "e", "e", "n", "x">>
WordSeEn == <<"s", "e", " ", "e", "n">>

ParseFlagError(unknown) == [ok |-> FALSE, error |-> "ParseFlagError", text |-> unknown]
FlagOk(f) == [ok |-> TRUE, flag |-> f]

\* impl From<&str> for Flag: an unknown word is a custom flag
FlagFrom(s) ==
    LET t == Trim(s) IN
    CASE EqIgnoreAsciiCase(t, WordSeen)     -> Seen
      [] EqIgnoreAsciiCase(t, WordAnswered) -> Answered
      [] EqIgnoreAsciiCase(t, WordReplied)  -> Answered
      [] EqIgnoreAsciiCase(t, WordFlagged)  -> Flagged
      [] EqIgnoreAsciiCase(t, WordDeleted)  -> Deleted
      [] EqIgnoreAsciiCase(t, WordTrashed)  -> Deleted
      [] EqIgnoreAsciiCase(t, WordDraft)    -> Draft
      [] OTHER -> Custom(t)

\* impl FromStr for Flag: an unknown word is an error
FlagFromStr(slice) ==
    LET t == Trim(slice) IN
    CASE EqIgnoreAsciiCase(t, WordSeen)     -> FlagOk(Seen)
      [] EqIgnoreAsciiCase(t, WordAnswered) -> FlagOk(Answered)
      [] EqIgnoreAsciiCase(t, WordReplied)  -> FlagOk(Answered)
      [] EqIgnoreAsciiCase(t, WordFlagged)  -> FlagOk(Flagged)
      [] EqIgnoreAsciiCase(t, WordDeleted)  -> FlagOk(Deleted)
      [] EqIgnoreAsciiCase(t, WordTrashed)  -> FlagOk(Deleted)
      [] EqIgnoreAsciiCase(t, WordDraft)    -> FlagOk(Draft)
      [] OTHER -> ParseFlagError(t)

\* a mutant of FlagsFrom: the tokens are converted with Flag::from
FlagsFromKeepingUnknown(s) ==
    {FlagFrom(SplitWhitespace(s)[i]) : i \in 1..Len(SplitWhitespace(s))}

\* impl From<&str> for Flags: s.split_whitespace().flat_map(|flag| flag.parse()).collect()
FlagsFrom(s) ==
    LET tokens == SplitWhitespace(s) IN
    {FlagFromStr(tokens[i]).flag : i \in {j \in 1..Len(tokens) : FlagFromStr(tokens[j]).ok}}

FlagsOk(flags) == [ok |-> TRUE, flags |-> flags]
\* impl FromStr for Flags: ..map(|flag| flag.parse()).collect::<Result<HashSet<_>>>()?
FlagsFromStr(s) ==
    LET tokens == SplitWhitespace(s)
        bad == {j \in 1..Len(tokens) : ~FlagFromStr(tokens[j]).ok}
    IN  IF bad = {}
        THEN FlagsOk({FlagFromStr(tokens[i]).flag : i \in 1..Len(tokens)})
        ELSE FlagFromStr(tokens[CHOOSE j \in bad : \A k \in bad : j <= k])

\* the spellings of a word: as it is, upper case, capitalised, every second
\* letter upper case
Spell(word, style) ==
    CASE style = "lower" -> word
      [] style = "upper" -> [i \in 1..Len(word) |-> ToAsciiUppercase(word[i])]
      [] style = "capital" ->
            [i \in 1..Len(word) |-> IF i = 1 THEN ToAsciiUppercase(word[i]) ELSE word[i]]
      [] style = "mixed" ->
            [i \in 1..Len(word) |-> IF i % 2 = 0 THEN ToAsciiUppercase(word[i]) ELSE word[i]]
Styles == {"lower", "upper", "capital", "mixed"}
\* whitespace put before and after a word
Paddings == {<<>>, <<" ">>, <<"\t", "\n">>}
KnownWords == {WordSeen, WordAnswered, WordReplied, WordFlagged, WordDeleted,
               WordTrashed, WordDraft}
UnknownWords == {WordFoo, WordSeenX, WordSeEn, <<>>}
\* the tokens of a flag text
Tokens == {Spell(w, "lower") : w \in KnownWords \cup {WordFoo}} \cup {Spell(WordReplied, "upper")}
TokenLists == UNION {[1..n -> Tokens] : n \in 0..MaxTokens}
Separators == {<<" ">>, <<"\n", " ">>}

RECURSIVE JoinTokens(_, _)
JoinTokens(tokens, sep) ==
    IF tokens = <<>> THEN <<>>
    ELSE IF Len(tokens) = 1 THEN Head(tokens)
    ELSE Head(tokens) \o sep \o JoinTokens(Tail(tokens), sep)

NoText == [kind |-> "none"]
ParseInit ==
    /\ fInput = NoText
    /\ fFrom = Seen
    /\ fFromStr = FlagOk(Seen)

\* a word is converted to a Flag, by Flag::from and by str::parse
ParseFlag(word, style, before, after) ==
    LET text == before \o Spell(word, style) \o after IN
    /\ fInput = NoText
    /\ fInput' = [kind |-> "flag", text |-> text, word |-> word]
    /\ fFrom' = FlagFrom(text)
    /\ fFromStr' = FlagFromStr(text)
    /\ ParseOnly

\* a text is converted to Flags, by Flags::from and by str::parse
ParseFlags(tokens, sep, before) ==
    LET text == before \o JoinTokens(tokens, sep) IN
    /\ fInput = NoText
    /\ fInput' = [kind |-> "flags", text |-> text, tokens |-> tokens]
    /\ fFrom' = FlagsFrom(text)
    /\ fFromStr' = FlagsFromStr(text)
    /\ ParseOnly

\* the caller has taken the two results
TakeFlags ==
    /\ fInput # NoText
    /\ fInput' = NoText
    /\ fFrom' = Seen
    /\ fFromStr' = FlagOk(Seen)
    /\ ParseOnly

(***************************************************************************)
(* Templates (email-tpl/src/tpl.rs, email-tpl/src/mml/compiler.rs)         *)
(*                                                                         *)
(* A text is a sequence of pieces: words, ":", " " and "\n".  A raw header *)
(* is a key and a value as mail_parser hands them over, the value with the *)
(* whitespace around it.  Parts are single parts with their sign and       *)
(* encrypt properties; a command is a sequence of words.                   *)
(***************************************************************************)
MaxHeaders == 2
MaxAddrs   == 2
MaxParts   == 2

\* ShowHeadersStrategy, as matched in Tpl::interpret_with
StrategyAll == [kind |-> "All", keys |-> {}]
StrategyOnly(keys) == [kind |-> "Only", keys |-> keys]
\* hide_all_headers: no header name is shown
StrategyHideAll == StrategyOnly({})

HeaderKeys == {<<"From">>, <<"To">>, <<"from">>}
RawValues  == {<<" ", "a@l", "\n">>, <<" ", "re:", "\n", " ", "x", "\n">>}
RawHeaders == [key : HeaderKeys, val : RawValues]
HeaderLists == UNION {[1..n -> RawHeaders] : n \in 0..MaxHeaders}
Strategies ==
    {StrategyAll, StrategyHideAll, StrategyOnly({<<"From">>}), StrategyOnly({<<"From">>, <<"To">>})}

TplOk(text) == [kind |-> "Ok", text |-> text]
TplParseMessageError == [kind |-> "ParseMessageError", text |-> <<>>]
TplInterpretError    == [kind |-> "InterpretError", text |-> <<>>]

\* what Interpreter::interpret returns for the body of the message
InterpretResults == {TplOk(<<>>), TplOk(<<"Hello", "\n", "world">>), TplInterpretError}

\* format!("{key}: {val}\n")
HeaderLine(key, val) == key \o <<":", " ">> \o val \o <<"\n">>

\* a mutant of ShowsHeader: the strategy is not looked at
ShowsEveryHeader(strategy, key) == TRUE

\* the arms of `match interpreter.show_headers`
ShowsHeader(strategy, key) ==
    \/ strategy.kind = "All"
    \/ strategy.kind = "Only" /\ key \in strategy.keys

\* the loop over msg.headers_raw(), pushing to tpl
RECURSIVE PushHeaders(_, _, _)
PushHeaders(tpl, strategy, headers) ==
    IF headers = <<>> THEN tpl
    ELSE LET key == Trim(Head(headers).key)
             val == Trim(Head(headers).val)
         IN  PushHeaders(IF ShowsHeader(strategy, key) THEN tpl \o HeaderLine(key, val) ELSE tpl,
                         strategy, Tail(headers))

InterpretWithOn(strategy, headers, parses, body) ==
    IF ~parses THEN TplParseMessageError
    ELSE LET shown == PushHeaders(<<>>, strategy, headers)
             tpl   == IF shown # <<>> THEN shown \o <<"\n">> ELSE shown
         IN  IF body.kind # "Ok" THEN TplInterpretError
             ELSE TplOk(tpl \o body.text)

\* ---- the compiler ----
NoneOpt == [some |-> FALSE, v |-> <<>>]
SomeOpt(v) == [some |-> TRUE, v |-> v]

Placeholder == <<"<recipient>">>
\* "gpg --encrypt --armor --recipient <recipient> --quiet --output -"
DefaultEncryptCmd == <<<<"gpg">>, <<"--recipient">>, Placeholder, <<"--output">>>>
CustomEncryptCmd  == <<<<"enc">>, Placeholder>>
DefaultSignCmd    == <<<<"gpg">>, <<"--sign">>>>

Addresses == {<<"a@l">>, <<"b@l">>}
ToLists == UNION {[1..n -> Addresses] : n \in 0..MaxAddrs}

\* CompilerBuilder::new
CompilerBuilderNew == [pgp_encrypt_cmd |-> NoneOpt, pgp_encrypt_recipient |-> NoneOpt]
\* CompilerBuilder::pgp_encrypt_cmd
WithPgpEncryptCmd(b, cmd) == [b EXCEPT !.pgp_encrypt_cmd = SomeOpt(cmd)]
\* CompilerBuilder::pgp_encrypt_recipient: parsing a str into a String never fails
WithPgpEncryptRecipient(b, recipient) == [b EXCEPT !.pgp_encrypt_recipient = SomeOpt(recipient)]

CompilerBuilders ==
    LET cmds == {CompilerBuilderNew, WithPgpEncryptCmd(CompilerBuilderNew, CustomEncryptCmd)}
    IN  cmds \cup {WithPgpEncryptRecipient(b, r) : b \in cmds, r \in {<<"a@l">>, <<"c@l">>}}

\* CompilerBuilder::build
CompilerBuild(b) ==
    [pgp_encrypt_cmd       |-> IF b.pgp_encrypt_cmd.some THEN b.pgp_encrypt_cmd.v
                               ELSE DefaultEncryptCmd,
     pgp_encrypt_recipient |-> b.pgp_encrypt_recipient,
     pgp_sign_cmd          |-> DefaultSignCmd]

CompileOk(v) == [kind |-> "Ok", v |-> v]
CompileErr(what) == [kind |-> what, v |-> <<>>]
CompileTplMissingRecipientError == CompileErr("CompileTplMissingRecipientError")

\* Cmd::replace
CmdReplace(cmd, from, to) == [i \in 1..Len(cmd) |-> IF cmd[i] = from THEN to ELSE cmd[i]]

\* Compiler::pgp_encrypt_cmd
PgpEncryptCmd(compiler) ==
    IF ~compiler.pgp_encrypt_recipient.some THEN CompileTplMissingRecipientError
    ELSE CompileOk(CmdReplace(compiler.pgp_encrypt_cmd, Placeholder,
                              compiler.pgp_encrypt_recipient.v))

\* the single parts of a template: their sign and encrypt properties
PartKinds == {[sign |-> FALSE, encrypt |-> FALSE],
              [sign |-> FALSE, encrypt |-> TRUE],
              [sign |-> TRUE,  encrypt |-> TRUE]}
PartLists == UNION {[1..n -> PartKinds] : n \in 0..MaxParts}

\* the compiled part: the commands that were run on it, in order
Compiled(cmds) == CompileOk(cmds)

\* Compiler::compile_part for Part::SinglePart
CompilePart(compiler, part, signFails, encryptFails) ==
    LET signed == IF part.sign THEN <<compiler.pgp_sign_cmd>> ELSE <<>> IN
    IF part.sign /\ signFails THEN CompileErr("SignPartError")
    ELSE IF ~part.encrypt THEN Compiled(signed)
    ELSE LET cmd == PgpEncryptCmd(compiler) IN
         IF cmd.kind # "Ok" THEN cmd
         ELSE IF encryptFails THEN CompileErr("EncryptPartError")
         ELSE Compiled(signed \o <<cmd.v>>)

\* Compiler::compile_parts: the parts in order, up to the first failure
RECURSIVE CompileParts(_, _, _, _, _)
CompileParts(compiler, parts, failure, failAt, done) ==
    IF parts = <<>> THEN CompileOk(done)
    ELSE LET part == CompilePart(compiler, Head(parts),
                                 failure = "sign" /\ failAt = 1,
                                 failure = "encrypt" /\ failAt = 1)
         IN  IF part.kind # "Ok" THEN part
             ELSE CompileParts(compiler, Tail(parts), failure, failAt - 1,
                               Append(done, part.v))

CompileFailures == {"none", "parse_message", "parse_tpl", "sign", "encrypt", "write"}

\* Compiler::compile
Compile(compiler, parts, failure, failAt) ==
    IF failure = "parse_tpl" THEN CompileErr("ParseTplError")
    ELSE CompileParts(compiler, parts, failure, failAt, <<>>)

\* the raw headers of a template whose To header lists the addresses of to
TplHeaders(to) == IF to = <<>> THEN <<>> ELSE <<[key |-> <<"To">>, val |-> to]>>

\* Tpl::compile_with
CompileWithOn(builder, to, parts, failure, failAt) ==
    IF failure = "parse_message" THEN CompileErr("ParseMessageError")
    ELSE LET body == Compile(CompilerBuild(builder), parts, failure, failAt) IN
         IF body.kind # "Ok" THEN [kind |-> "CompileMmlError", v |-> <<body.kind>>]
         ELSE IF failure = "write" THEN CompileErr("WriteTplToVecError")
         ELSE CompileOk([headers |-> TplHeaders(to), parts |-> body.v])

TplInit ==
    /\ tCall = NoCall
    /\ tResult = TplOk(<<>>)

InterpretWith(strategy, headers, parses, body) ==
    /\ tCall = NoCall
    /\ tCall' = [op |-> "interpret_with", strategy |-> strategy, headers |-> headers,
                 parses |-> parses, body |-> body]
    /\ tResult' = InterpretWithOn(strategy, headers, parses, body)
    /\ TplOnly

CompileWith(builder, to, parts, failure, failAt) ==
    /\ tCall = NoCall
    /\ failAt <= Len(parts) \/ failAt = 1
    /\ tCall' = [op |-> "compile_with", builder |-> builder, to |-> to, parts |-> parts,
                 failure |-> failure, failAt |-> failAt]
    /\ tResult' = CompileWithOn(builder, to, parts, failure, failAt)
    /\ TplOnly

\* the caller has taken the result
TakeTpl ==
    /\ tCall # NoCall
    /\ tCall' = NoCall
    /\ tResult' = TplOk(<<>>)
    /\ TplOnly

(***************************************************************************)
(* ImapStartTls (start-tls/src/imap/mod.rs, start-tls/src/imap/futures.rs) *)
(*                                                                         *)
(* The stream is the client's end of a connection: inbound holds the       *)
(* chunks that have arrived (a read takes one chunk, and is Pending when   *)
(* there is none), wire the bytes the stream accepted.  The server sends   *)
(* its greeting in one or more chunks, and its response to the command     *)
(* once the whole command is on the wire.  A write is Pending or accepts   *)
(* any number of the bytes offered; a flush is Pending or Ready; any of    *)
(* the four stream operations of a poll may fail.                          *)
(***************************************************************************)
MaxPolls    == 3
MaxChunks   == 2
BufCapacity == 2

\* ImapStartTls::COMMAND
COMMAND == <<"A", "1", " ", "S", "T", "A", "R", "T", "T", "L", "S", "\r", "\n">>

IoSteps == {"greeting", "command", "response", "flush"}
\* the counts a write may return: nothing, one byte, all but one, all
WriteSizes == {0, 1, Len(COMMAND) - 1, Len(COMMAND)}
WriteOutcomes == {[ready |-> FALSE, n |-> 0]} \cup {[ready |-> TRUE, n |-> n] : n \in WriteSizes}
FlushOutcomes == {"Pending", "Ready"}

\* vec![0; capacity]
ZeroBuf == [i \in 1..BufCapacity |-> 0]
\* buf.fill(0)
Fill(b) == [i \in DOMAIN b |-> 0]

\* the object and its stream, as one value
TlsState ==
    [handshake_discarded |-> handshake_discarded, command_sent |-> command_sent,
     buf |-> buf, inbound |-> inbound, wire |-> wire, io |-> ioLog]

IoEvent(step, data, n, sent) == [step |-> step, data |-> data, n |-> n, sent |-> sent]

\* stream.poll_read(cx, &mut self.buf): one chunk is copied into the buffer
PollRead(s, step, fails) ==
    IF fails THEN [ret |-> "Err", s |-> s]
    ELSE IF s.inbound = <<>> THEN [ret |-> "Pending", s |-> s]
    ELSE [ret |-> "Ready",
          s |-> [s EXCEPT !.inbound = Tail(@),
                          !.buf = [@ EXCEPT ![1] = 1],
                          !.io = Append(@, IoEvent(step, Head(s.inbound), 1, s.command_sent))]]

\* stream.poll_write(cx, COMMAND.as_bytes()): the first n bytes are accepted
PollWrite(s, w, fails) ==
    IF fails THEN [ret |-> "Err", s |-> s]
    ELSE IF ~w.ready THEN [ret |-> "Pending", s |-> s]
    ELSE [ret |-> "Ready",
          s |-> [s EXCEPT !.wire = @ \o SubSeq(COMMAND, 1, w.n),
                          !.io = Append(@, IoEvent("command", "command", w.n, s.command_sent))]]

\* the first block of poll: the greeting is read and discarded
DiscardHandshake(s, err) ==
    IF s.handshake_discarded THEN [ret |-> "Ready", s |-> s]
    ELSE LET r == PollRead(s, "greeting", err = "greeting") IN
         IF r.ret = "Ready"
         THEN [ret |-> "Ready",
               s |-> [r.s EXCEPT !.buf = Fill(@), !.handshake_discarded = TRUE]]
         ELSE r

\* a mutant of SendCommand: command_sent is not looked at
SendCommandAgain(s, w, err) ==
    LET r == PollWrite(s, w, err = "command") IN
    IF r.ret = "Ready" THEN [ret |-> "Ready", s |-> [r.s EXCEPT !.command_sent = TRUE]]
    ELSE IF r.ret = "Pending" THEN [ret |-> "Ready", s |-> s]
    ELSE r

\* the second block of poll: the command is written; a Pending write goes on
SendCommand(s, w, err) ==
    IF s.command_sent THEN [ret |-> "Ready", s |-> s]
    ELSE LET r == PollWrite(s, w, err = "command") IN
         IF r.ret = "Ready" THEN [ret |-> "Ready", s |-> [r.s EXCEPT !.command_sent = TRUE]]
         ELSE IF r.ret = "Pending" THEN [ret |-> "Ready", s |-> s]
         ELSE r

\* the third block of poll: a read is made and discarded
DiscardResponse(s, err) ==
    LET r == PollRead(s, "response", err = "response") IN
    IF r.ret = "Ready" THEN [ret |-> "Ready", s |-> [r.s EXCEPT !.buf = Fill(@)]]
    ELSE r

\* stream.poll_flush(cx)
PollFlush(fl, err) ==
    IF err = "flush" THEN "ReadyErr"
    ELSE IF fl = "Pending" THEN "Pending"
    ELSE "ReadyOk"

\* what poll returns when a block did not go through
Returned(ret) == IF ret = "Err" THEN "ReadyErr" ELSE "Pending"

\* ImapStartTls::poll
PollOn(s, w, fl, err) ==
    LET first == DiscardHandshake(s, err) IN
    IF first.ret # "Ready" THEN [ret |-> Returned(first.ret), s |-> first.s]
    ELSE LET second == SendCommand(first.s, w, err) IN
         IF second.ret # "Ready" THEN [ret |-> Returned(second.ret), s |-> second.s]
         ELSE LET third == DiscardResponse(second.s, err) IN
              IF third.ret # "Ready" THEN [ret |-> Returned(third.ret), s |-> third.s]
              ELSE [ret |-> PollFlush(fl, err), s |-> third.s]

NoPoll == [w |-> [ready |-> FALSE, n |-> 0], fl |-> "Pending", err |-> "none"]

\* ImapStartTls::new, on a stream nothing has arrived on
StartTlsInit ==
    /\ handshake_discarded = FALSE
    /\ command_sent = FALSE
    /\ buf = ZeroBuf
    /\ inbound = <<>>
    /\ wire = <<>>
    /\ ioLog = <<>>
    /\ served = [greeting |-> 0, response |-> 0]
    /\ polls = 0
    /\ pollIn = NoPoll
    /\ polled = "none"

\* a chunk of the greeting arrives
ServerGreets ==
    /\ served.greeting < MaxChunks
    /\ served.response = 0
    /\ inbound' = Append(inbound, "greeting")
    /\ served' = [served EXCEPT !.greeting = @ + 1]
    /\ UNCHANGED <<handshake_discarded, command_sent, buf, wire, ioLog, polls, pollIn, polled>>
    /\ StartTlsOnly

\* a chunk of the response to the command arrives
ServerResponds ==
    /\ served.greeting > 0
    /\ wire = COMMAND
    /\ served.response < MaxChunks
    /\ inbound' = Append(inbound, "response")
    /\ served' = [served EXCEPT !.response = @ + 1]
    /\ UNCHANGED <<handshake_discarded, command_sent, buf, wire, ioLog, polls, pollIn, polled>>
    /\ StartTlsOnly

\* the future is polled, for the first time or again after Pending
Poll(w, fl, err) ==
    LET p == PollOn(TlsState, w, fl, err) IN
    /\ polled \in {"none", "Pending"}
    /\ polls < MaxPolls
    /\ polls' = polls + 1
    /\ pollIn' = [w |-> w, fl |-> fl, err |-> err]
    /\ polled' = p.ret
    /\ handshake_discarded' = p.s.handshake_discarded
    /\ command_sent' = p.s.command_sent
    /\ buf' = p.s.buf
    /\ inbound' = p.s.inbound
    /\ wire' = p.s.wire
    /\ ioLog' = p.s.io
    /\ UNCHANGED served
    /\ StartTlsOnly

(***************************************************************************)
(* SendSendmailMessage::send_message (message/send/sendmail.rs)            *)
(*                                                                         *)
(* Bytes are named texts.  MessageParser::parse gives a message for the    *)
(* texts it can parse and None for the others; a parsed message keeps the  *)
(* bytes it was parsed from, the default message has none.                 *)
(***************************************************************************)
MaxSends == 2

NoBytes == "empty"
\* the texts MessageParser::parse makes a message of
Parsable == {"mail1", "mail2", "hooked1"}
RawMessages == {"mail1", "mail2", "junk1", "junk2", NoBytes}
HookOutputs == {"hooked1", "mail1", "junk2", NoBytes}
\* how the pre-send hook ends when it is run
HookOutcomes == {[ok |-> FALSE, out |-> NoBytes]} \cup {[ok |-> TRUE, out |-> o] : o \in HookOutputs}

\* Message::default()
DefaultMessage == [raw |-> NoBytes]

\* MessageParser::new().parse(bytes).unwrap_or_else(Default::default)
ParseOrDefault(bytes) == IF bytes \in Parsable THEN [raw |-> bytes] ELSE DefaultMessage
\* Message::raw_message
RawMessage(msg) == msg.raw

RunOf(cmd, input) == [cmd |-> cmd, input |-> input]
RunSendmailCommandError == [kind |-> "RunSendmailCommandError"]

\* send_message(msg)
SendMessageOn(hookConfigured, bytes, hook, sendmailOk) ==
    LET msg == ParseOrDefault(bytes)
        hooked == IF hookConfigured /\ hook.ok THEN ParseOrDefault(hook.out) ELSE msg
        ran == (IF hookConfigured THEN <<RunOf("pre_send_hook", RawMessage(msg))>> ELSE <<>>)
                \o <<RunOf("sendmail", RawMessage(hooked))>>
    IN  [runs |-> ran, res |-> IF sendmailOk THEN SOk ELSE RunSendmailCommandError]

SendInit ==
    /\ preSendHook \in BOOLEAN
    /\ mSends = 0
    /\ mSendmailRuns = 0
    /\ mCall = NoCall
    /\ mRuns = <<>>
    /\ mResult = SOk

SendMessage(msg, hook, sendmailOk) ==
    LET r == SendMessageOn(preSendHook, msg, hook, sendmailOk) IN
    /\ mCall = NoCall
    /\ mSends < MaxSends
    /\ preSendHook \/ hook = [ok |-> FALSE, out |-> NoBytes]
    /\ mSends' = mSends + 1
    /\ mCall' = [op |-> "send_message", msg |-> msg, hook |-> hook, sendmailOk |-> sendmailOk]
    /\ mRuns' = r.runs
    /\ mSendmailRuns' = mSendmailRuns + Cardinality({i \in 1..Len(r.runs) : r.runs[i].cmd = "sendmail"})
    /\ mResult' = r.res
    /\ UNCHANGED preSendHook
    /\ SendOnly

\* the caller has taken the result
TakeSent ==
    /\ mCall # NoCall
    /\ mCall' = NoCall
    /\ mRuns' = <<>>
    /\ mResult' = SOk
    /\ UNCHANGED <<preSendHook, mSends, mSendmailRuns>>
    /\ SendOnly

(***************************************************************************)
(* PasswdConfig (account/config/passwd.rs)                                 *)
(*                                                                         *)
(* The secret is a keyring entry.  A lookup, a write and a delete of the   *)
(* entry may each be refused by the keyring, and a refused operation       *)
(* leaves the entry as it was; get_passwd gives a password or fails.       *)
(***************************************************************************)
NoPasswd == "none"
Passwords == {"p1", "p2"}
\* what the closure get_passwd returns
GetPasswdResults == {[ok |-> FALSE, passwd |-> NoPasswd]} \cup {[ok |-> TRUE, passwd |-> p] : p \in Passwords}

PasswdError(kind) == [kind |-> kind]
PasswdDone(res, keyring, asked, wrote) ==
    [res |-> res, keyring |-> keyring, asked |-> asked, wrote |-> wrote]

\* a mutant of ConfigureOn: a stored password does not stop the question
ConfigureAlwaysAsking(keyring, findOk, got, setOk) ==
    IF ~findOk THEN PasswdDone(PasswdError("GetFromKeyringError"), keyring, FALSE, FALSE)
    ELSE IF ~got.ok THEN PasswdDone(PasswdError("GetFromUserError"), keyring, TRUE, FALSE)
    ELSE IF ~setOk THEN PasswdDone(PasswdError("SetIntoKeyringError"), keyring, TRUE, FALSE)
    ELSE PasswdDone(SOk, got.passwd, TRUE, TRUE)

\* PasswdConfig::configure
ConfigureOn(keyring, findOk, got, setOk) ==
    IF ~findOk THEN PasswdDone(PasswdError("GetFromKeyringError"), keyring, FALSE, FALSE)
    ELSE IF keyring # NoPasswd THEN PasswdDone(SOk, keyring, FALSE, FALSE)
    ELSE IF ~got.ok THEN PasswdDone(PasswdError("GetFromUserError"), keyring, TRUE, FALSE)
    ELSE IF ~setOk THEN PasswdDone(PasswdError("SetIntoKeyringError"), keyring, TRUE, FALSE)
    ELSE PasswdDone(SOk, got.passwd, TRUE, TRUE)

\* PasswdConfig::reset
ResetOn(keyring, deleteOk) ==
    IF ~deleteOk THEN PasswdDone(PasswdError("DeleteError"), keyring, FALSE, FALSE)
    ELSE PasswdDone(SOk, NoPasswd, FALSE, keyring # NoPasswd)

\* the keyring holds a password or none when the program starts
PasswdInit ==
    /\ kKeyring \in Passwords \cup {NoPasswd}
    /\ kBefore = kKeyring
    /\ kCall = NoCall
    /\ kResult = SOk
    /\ kAsked = FALSE
    /\ kWrote = FALSE
    /\ kPrev = [op |-> "none", ok |-> TRUE]

PasswdReturns(call, r) ==
    /\ kPrev' = [op |-> kCall.op, ok |-> kResult = SOk]
    /\ kBefore' = kKeyring
    /\ kCall' = call
    /\ kKeyring' = r.keyring
    /\ kResult' = r.res
    /\ kAsked' = r.asked
    /\ kWrote' = r.wrote
    /\ PasswdOnly

Configure(findOk, got, setOk) ==
    PasswdReturns([op |-> "configure", findOk |-> findOk, got |-> got, setOk |-> setOk],
                  ConfigureOn(kKeyring, findOk, got, setOk))

Reset(deleteOk) ==
    PasswdReturns([op |-> "reset", deleteOk |-> deleteOk], ResetOn(kKeyring, deleteOk))

(***************************************************************************)
(* The specifications                                                      *)
(***************************************************************************)
FlagsParked == FlagsInit
LockParked  == LockInit
MaildirParked ==
    /\ aliases = [n \in FolderNames |-> NoAlias]
    /\ expandable = {RootPath}
    /\ mdFolder = NoFolder
    /\ mdResult = NoResult
SyncParked ==
    /\ policy = "keep"
    /\ snapshot = NoViews.snap
    /\ left = NoViews.left
    /\ right = NoViews.right
    /\ phase = "idle"
    /\ patch = {}
    /\ pending = {}
    /\ succeeded = {}
    /\ failed = {}
    /\ runs = 0
    /\ changes = 0
    /\ attempts = 0
    /\ start = NoViews
    /\ retryDue = {}
    /\ afterClean = FALSE
ExecParked ==
    /\ xMode = [f \in XFolders |-> "keep"]
    /\ xExists = XFolders
    /\ xStatus = [h \in XPatch([f \in XFolders |-> "keep"]) |-> "pending"]
TaskParked == TaskInit

BuilderParked ==
    /\ bConfig = "account1/root1"
    /\ bBuilt = "no"
    /\ bUsed = FALSE
    /\ bLog = {}

StoreParked ==
    /\ sStore = NoStore
    /\ sBefore = NoStore
    /\ sCall = NoCall
    /\ sResult = SOk
    /\ sRemoved = {}

PeekParked ==
    /\ nTags = NoDb.tags
    /\ nIndexed = {}
    /\ nFiles = {}
    /\ nBefore = NoDb
    /\ nCall = NoCall
    /\ nResult = SOk

ImapParked == ImapInit

ParseParked == ParseInit

TplParked == TplInit

StartTlsParked == StartTlsInit

SendParked ==
    /\ preSendHook = FALSE
    /\ mSends = 0
    /\ mSendmailRuns = 0
    /\ mCall = NoCall
    /\ mRuns = <<>>
    /\ mResult = SOk

PasswdParked ==
    /\ kKeyring = NoPasswd
    /\ kBefore = NoPasswd
    /\ kCall = NoCall
    /\ kResult = SOk
    /\ kAsked = FALSE
    /\ kWrote = FALSE
    /\ kPrev = [op |-> "none", ok |-> TRUE]

InitFlags ==
    /\ FlagsInit
    /\ LockParked
    /\ MaildirParked
    /\ SyncParked
    /\ ExecParked
    /\ TaskParked
    /\ BuilderParked
    /\ StoreParked
    /\ PeekParked
    /\ ImapParked
    /\ ParseParked
    /\ TplParked
    /\ StartTlsParked
    /\ SendParked
    /\ PasswdParked
NextFlags ==
    \/ \E f \in FlagPool : InsertA(f)
    \/ \E f \in FlagPool : InsertB(f)
SpecFlags == InitFlags /\ [][NextFlags]_vars

InitLock ==
    /\ FlagsParked
    /\ LockInit
    /\ MaildirParked
    /\ SyncParked
    /\ ExecParked
    /\ TaskParked
    /\ BuilderParked
    /\ StoreParked
    /\ PeekParked
    /\ ImapParked
    /\ ParseParked
    /\ TplParked
    /\ StartTlsParked
    /\ SendParked
    /\ PasswdParked
NextLock ==
    \/ \E t \in Tasks, o \in Ops : \E n \in IdCounts(o) : Call(t, o, n)
    \/ \E t \in Tasks : Acquire(t)
    \/ \E t \in Tasks, ok \in BOOLEAN : Resolve(t, ok)
    \/ \E t \in Tasks, ok \in BOOLEAN : ResolveTo(t, ok)
    \/ \E t \in Tasks, ok \in BOOLEAN : BackendCall(t, ok)
SpecLock == InitLock /\ [][NextLock]_vars
\* tokio runs every task that can run: a granted lock is taken, and the holder,
\* which does not await under the guard, runs to its return
FairSpecLock ==
    /\ SpecLock
    /\ \A t \in Tasks : WF_vars(Acquire(t)) /\ WF_vars(Proceed(t))

InitMaildir ==
    /\ FlagsParked
    /\ LockParked
    /\ MaildirInit
    /\ SyncParked
    /\ ExecParked
    /\ TaskParked
    /\ BuilderParked
    /\ StoreParked
    /\ PeekParked
    /\ ImapParked
    /\ ParseParked
    /\ TplParked
    /\ StartTlsParked
    /\ SendParked
    /\ PasswdParked
NextMaildir ==
    \/ \E folder \in FolderNames \cup AliasTargets : GetMaildir(folder)
    \/ \E p \in PathUniverse : MakeDir(p)
    \/ \E p \in PathUniverse : RemoveDir(p)
SpecMaildir == InitMaildir /\ [][NextMaildir]_vars

InitSync ==
    /\ FlagsParked
    /\ LockParked
    /\ MaildirParked
    /\ SyncInit
    /\ ExecParked
    /\ TaskParked
    /\ BuilderParked
    /\ StoreParked
    /\ PeekParked
    /\ ImapParked
    /\ ParseParked
    /\ TplParked
    /\ StartTlsParked
    /\ SendParked
    /\ PasswdParked
NextSync ==
    \/ \E side \in Sides, e \in SyncIds, v \in EnvValues : ExternalChange(side, e, v)
    \/ StartSync
    \/ \E h \in patch : HunkSucceeds(h)
    \/ \E h \in patch : HunkFails(h)
    \/ Commit
SpecSync == InitSync /\ [][NextSync]_vars

InitExec ==
    /\ FlagsParked
    /\ LockParked
    /\ MaildirParked
    /\ SyncParked
    /\ ExecInit
    /\ TaskParked
    /\ BuilderParked
    /\ StoreParked
    /\ PeekParked
    /\ ImapParked
    /\ ParseParked
    /\ TplParked
    /\ StartTlsParked
    /\ SendParked
    /\ PasswdParked
NextExec ==
    \/ \E h \in DOMAIN xStatus : Dispatch(h)
    \/ \E h \in DOMAIN xStatus, ok \in BOOLEAN : Complete(h, ok)
    \/ \E h \in DOMAIN xStatus : Skip(h)
SpecExec == InitExec /\ [][NextExec]_vars

InitFolders ==
    /\ FlagsParked
    /\ LockParked
    /\ MaildirParked
    /\ SyncParked
    /\ ExecParked
    /\ TaskInit
    /\ BuilderParked
    /\ StoreParked
    /\ PeekParked
    /\ ImapParked
    /\ ParseParked
    /\ TplParked
    /\ StartTlsParked
    /\ SendParked
    /\ PasswdParked
NextFolders ==
    \/ \E f \in TFolders : Spawn(f)
    \/ \E f \in TFolders : Work(f)
    \/ \E f \in TFolders : Finish(f)
    \/ \E f \in TFolders : Fail(f)
    \/ Gather
SpecFolders == InitFolders /\ [][NextFolders]_vars

InitBuilder ==
    /\ FlagsParked
    /\ LockParked
    /\ MaildirParked
    /\ SyncParked
    /\ ExecParked
    /\ TaskParked
    /\ BuilderInit
    /\ StoreParked
    /\ PeekParked
    /\ ImapParked
    /\ ParseParked
    /\ TplParked
    /\ StartTlsParked
    /\ SendParked
    /\ PasswdParked
NextBuilder ==
    \/ \E config \in BuilderConfigs : NewBuilder(config)
    \/ \E cap \in Capabilities : Query(cap)
    \/ \E ok \in BOOLEAN : Build(ok)
    \/ UseContext
SpecBuilder == InitBuilder /\ [][NextBuilder]_vars

InitStore ==
    /\ FlagsParked
    /\ LockParked
    /\ MaildirParked
    /\ SyncParked
    /\ ExecParked
    /\ TaskParked
    /\ BuilderParked
    /\ StoreInit
    /\ PeekParked
    /\ ImapParked
    /\ ParseParked
    /\ TplParked
    /\ StartTlsParked
    /\ SendParked
    /\ PasswdParked
NextStore ==
    \/ \E folder \in SFolders, ids \in IdLists, failAt \in 0..MaxIdList :
          RemoveMessages(folder, ids, failAt)
    \/ \E from \in SFolders, to \in SFolders, ids \in IdLists, failAt \in 0..MaxIdList :
          MoveMessages(from, to, ids, failAt)
    \/ \E folder \in SFolders, id \in MsgIds : GetEnvelope(folder, id)
    \/ TakeResult
SpecStore == InitStore /\ [][NextStore]_vars

InitPeek ==
    /\ FlagsParked
    /\ LockParked
    /\ MaildirParked
    /\ SyncParked
    /\ ExecParked
    /\ TaskParked
    /\ BuilderParked
    /\ StoreParked
    /\ PeekInit
    /\ ImapParked
    /\ ParseParked
    /\ TplParked
    /\ StartTlsParked
    /\ SendParked
    /\ PasswdParked
NextPeek ==
    \/ \E folder \in PeekFolders, ids \in IdLists, failure \in PeekFailures, failAt \in 0..MaxIdList :
          PeekMessages(folder, ids, failure, failAt)
    \/ TakePeeked
SpecPeek == InitPeek /\ [][NextPeek]_vars

InitImap ==
    /\ FlagsParked
    /\ LockParked
    /\ MaildirParked
    /\ SyncParked
    /\ ExecParked
    /\ TaskParked
    /\ BuilderParked
    /\ StoreParked
    /\ PeekParked
    /\ ImapInit
    /\ ParseParked
    /\ TplParked
    /\ StartTlsParked
    /\ SendParked
    /\ PasswdParked
NextImap ==
    \/ \E id \in ImapIds, selectOk \in BOOLEAN, fetchOk \in BOOLEAN :
          GetMessages(id, selectOk, fetchOk)
    \/ TakeMessages
SpecImap == InitImap /\ [][NextImap]_vars

InitParse ==
    /\ FlagsParked
    /\ LockParked
    /\ MaildirParked
    /\ SyncParked
    /\ ExecParked
    /\ TaskParked
    /\ BuilderParked
    /\ StoreParked
    /\ PeekParked
    /\ ImapParked
    /\ ParseInit
    /\ TplParked
    /\ StartTlsParked
    /\ SendParked
    /\ PasswdParked
NextParse ==
    \/ \E word \in KnownWords \cup UnknownWords, style \in Styles,
          before \in Paddings, after \in Paddings : ParseFlag(word, style, before, after)
    \/ \E tokens \in TokenLists, sep \in Separators, before \in Paddings :
          ParseFlags(tokens, sep, before)
    \/ TakeFlags
SpecParse == InitParse /\ [][NextParse]_vars

InitTpl ==
    /\ FlagsParked
    /\ LockParked
    /\ MaildirParked
    /\ SyncParked
    /\ ExecParked
    /\ TaskParked
    /\ BuilderParked
    /\ StoreParked
    /\ PeekParked
    /\ ImapParked
    /\ ParseParked
    /\ TplInit
    /\ StartTlsParked
    /\ SendParked
    /\ PasswdParked
NextTpl ==
    \/ \E strategy \in Strategies, headers \in HeaderLists, parses \in BOOLEAN,
          body \in InterpretResults : InterpretWith(strategy, headers, parses, body)
    \/ \E builder \in CompilerBuilders, to \in ToLists, parts \in PartLists,
          failure \in CompileFailures, failAt \in 1..MaxParts :
          CompileWith(builder, to, parts, failure, failAt)
    \/ TakeTpl
SpecTpl == InitTpl /\ [][NextTpl]_vars

InitStartTls ==
    /\ FlagsParked
    /\ LockParked
    /\ MaildirParked
    /\ SyncParked
    /\ ExecParked
    /\ TaskParked
    /\ BuilderParked
    /\ StoreParked
    /\ PeekParked
    /\ ImapParked
    /\ ParseParked
    /\ TplParked
    /\ StartTlsInit
    /\ SendParked
    /\ PasswdParked
NextStartTls ==
    \/ ServerGreets
    \/ ServerResponds
    \/ \E w \in WriteOutcomes, fl \in FlushOutcomes, err \in IoSteps \cup {"none"} :
          Poll(w, fl, err)
SpecStartTls == InitStartTls /\ [][NextStartTls]_vars

InitSend ==
    /\ FlagsParked
    /\ LockParked
    /\ MaildirParked
    /\ SyncParked
    /\ ExecParked
    /\ TaskParked
    /\ BuilderParked
    /\ StoreParked
    /\ PeekParked
    /\ ImapParked
    /\ ParseParked
    /\ TplParked
    /\ StartTlsParked
    /\ SendInit
    /\ PasswdParked
NextSend ==
    \/ \E msg \in RawMessages, hook \in HookOutcomes, sendmailOk \in BOOLEAN :
          SendMessage(msg, hook, sendmailOk)
    \/ TakeSent
SpecSend == InitSend /\ [][NextSend]_vars

InitPasswd ==
    /\ FlagsParked
    /\ LockParked
    /\ MaildirParked
    /\ SyncParked
    /\ ExecParked
    /\ TaskParked
    /\ BuilderParked
    /\ StoreParked
    /\ PeekParked
    /\ ImapParked
    /\ ParseParked
    /\ TplParked
    /\ StartTlsParked
    /\ SendParked
    /\ PasswdInit
NextPasswd ==
    \/ \E findOk \in BOOLEAN, got \in GetPasswdResults, setOk \in BOOLEAN :
          Configure(findOk, got, setOk)
    \/ \E deleteOk \in BOOLEAN : Reset(deleteOk)
SpecPasswd == InitPasswd /\ [][NextPasswd]_vars

(***************************************************************************)
(* The claims                                                              *)
(***************************************************************************)
RunComplete == phase = "done" /\ failed = {}

\* C1 (SpecSync): whenever a sync of the folder has applied every hunk of both
\* patches, the left and the right live backend hold the same envelope ids with
\* the same flags, whatever the snapshot and the two backends were before.
C1_Convergence == RunComplete => left = right

C1_Witness ==
    /\ RunComplete
    /\ left = right
    /\ start.left # start.right
    /\ start.snap # start.left
    /\ start.snap # start.right
    /\ \E h \in patch : h.side = "left"
    /\ \E h \in patch : h.side = "right"

\* an envelope of the ancestor whose flags both sides changed, differently
FlagConflict(e) ==
    /\ start.snap[e].here /\ start.left[e].here /\ start.right[e].here
    /\ start.left[e].flags # start.snap[e].flags
    /\ start.right[e].flags # start.snap[e].flags
    /\ start.left[e].flags # start.right[e].flags

RemovedByBoth(e) ==
    Removals(start.snap[e].flags, start.left[e].flags)
    \cap Removals(start.snap[e].flags, start.right[e].flags)
RemovedByEither(e) ==
    Removals(start.snap[e].flags, start.left[e].flags)
    \cup Removals(start.snap[e].flags, start.right[e].flags)
AddedByEither(e) ==
    Additions(start.snap[e].flags, start.left[e].flags)
    \cup Additions(start.snap[e].flags, start.right[e].flags)
BothSidesHold(e, fl) == left[e] = Env(fl) /\ right[e] = Env(fl)

EffectIn(view, h) ==
    CASE h.op = "CreateEnvelope" -> view[h.id] = Env(h.flags)
      [] h.op = "DeleteEnvelope" -> ~view[h.id].here
      [] h.op = "AddFlag"        -> view[h.id].here => h.flags \subseteq view[h.id].flags
      [] h.op = "RemoveFlag"     -> h.flags \cap view[h.id].flags = {}

\* what hunk h acts on is in the view as it is in old
Untouched(view, old, h) ==
    IF h.op \in {"CreateEnvelope", "DeleteEnvelope"}
    THEN view[h.id] = old[h.id]
    ELSE /\ view[h.id].here = old[h.id].here
         /\ h.flags \cap view[h.id].flags = h.flags \cap old[h.id].flags

SideView(side) == IF side = "left" THEN left ELSE right
SideStart(side) == IF side = "left" THEN start.left ELSE start.right

C4_HunkOrdering ==
    \A h \in DOMAIN xStatus :
        /\ (h.kind = "Item" /\ Dispatched(h) /\ xMode[h.folder] = "create")
              => xStatus[XHunk("CreateFolder", h.folder, 0)] = "ok"
        /\ (h.kind = "Item" /\ xStatus[h] = "inflight") => h.folder \in xExists
        /\ (h.kind = "DeleteFolder" /\ Dispatched(h))
              => \A i \in ItemHunks(h.folder) : Completed(i)

C4_Witness ==
    \E f, g \in XFolders :
        /\ xMode[f] = "create" /\ xMode[g] = "delete"
        /\ xStatus[XHunk("CreateFolder", f, 0)] = "ok"
        /\ xStatus[XHunk("Item", f, 1)] = "inflight"
        /\ xStatus[XHunk("DeleteFolder", g, 0)] = "inflight"
        /\ xStatus[XHunk("Item", g, 1)] = "failed"

\* C5 (SpecFolders): when a folder task fails, the run returns only after every
\* folder task has ended, the folder-tasks-failed error it returns covers every
\* failed folder, and the snapshot of a failed folder is as it was before the run.
C5_FailTogether ==
    result.kind = "FolderTasksFailed" =>
        /\ \A f \in TFolders : task[f] \in {"ok", "failed"}
        /\ result.covers = FailedTasks
        /\ \A f \in FailedTasks : store[f] = 0

\* C6 (SpecSync): a run that follows a complete run, with no backend changed in
\* between, computes an empty patch for both sides and leaves both backends and
\* the snapshot as they were.
C6_Idempotence ==
    (afterClean /\ phase # "idle") =>
        /\ patch = {}
        /\ left = start.left /\ right = start.right /\ snapshot = start.snap

C6_Witness ==
    /\ afterClean
    /\ phase = "done"
    /\ runs = 2
    /\ left["e1"] = Env({Seen, Flagged})
    /\ snapshot = left

\* C7 (SpecLock): at most one task at a time is between acquiring and releasing
\* the context lock, and a task that is there is the owner of the lock: the
\* backend calls of two tasks never interleave.
C7_MutualExclusion ==
    /\ \A t, u \in Tasks : (pc[t] \in Holding /\ pc[u] \in Holding) => t = u
    /\ \A t \in Tasks : pc[t] \in Holding => owner = t

C7_Witness ==
    /\ pc["t1"] = "backend" /\ op["t1"] = "remove_messages" /\ todo["t1"] = 1
    /\ pc["t2"] = "waiting" /\ op["t2"] = "get_envelope"
    /\ pc["t3"] = "waiting" /\ op["t3"] = "move_messages"
    /\ owner = "t1"

\* C8 (FairSpecLock): a call acquires the context lock once, holds it only
\* inside the call, and has released it when it returns, by success or by any
\* error; every task waiting for the lock eventually holds it.
C8_ScopedLock ==
    /\ [](\A t \in Tasks :
            /\ pc[t] \in Holding <=> owner = t
            /\ pc[t] \in Holding => locks[t] = 1
            /\ (pc[t] = "idle" /\ outcome[t] # "none") => locks[t] = 1)
    /\ []((\A t \in Tasks : pc[t] = "idle") => owner = NoTask)
    /\ \A t \in Tasks : (pc[t] = "waiting") ~> (owner = t)

C8_Witness ==
    /\ outcome["t1"] = "err" /\ op["t1"] = "move_messages" /\ pc["t1"] = "idle"
    /\ outcome["t2"] = "err" /\ op["t2"] = "remove_messages"
    /\ owner = "t3" /\ locks["t3"] = 1

\* C9 (SpecFlags): two Flags values built by any two insertion sequences with the
\* same member set are equal and feed the hasher the same input; the members of
\* a Flags value are totally ordered, so sorting them never fails.
C9_FlagsEqHash ==
    /\ Range(flagsA) = Range(flagsB) =>
          /\ FlagsEq(flagsA, flagsB)
          /\ FlagsHash(flagsA) = FlagsHash(flagsB)
    /\ \A f, g \in Range(flagsA) : f # g => (FlagLess(f, g) <=> ~FlagLess(g, f))

C9_Witness ==
    /\ flagsA = <<Seen, Flagged>>
    /\ flagsB = <<Flagged, Seen>>
    /\ insertsA = 3
    /\ insertsB = 2

\* C10 as claimed (SpecMaildir): for a folder name that matches the inbox,
\* get_maildir_from_folder_name returns the maildir of the root directory.
C10_InboxIsRootAsClaimed ==
    (mdFolder # NoFolder /\ MatchesInbox(mdFolder)) => mdResult = OkPath(RootPath)

\* C10 amended (SpecMaildir): for a folder name that matches the inbox,
\* get_maildir_from_folder_name returns the maildir of the root directory when
\* the root path expands and the expansion error when it does not, and the
\* result is the same under every alias table.
C10_InboxIsRoot ==
    (mdFolder # NoFolder /\ MatchesInbox(mdFolder)) =>
        /\ RootPath \in expandable => mdResult = OkPath(RootPath)
        /\ RootPath \notin expandable => mdResult = ErrExpandPathFailed
        /\ \A table \in [FolderNames -> AliasTargets \cup {NoAlias}] :
              GetMaildirFromFolderName(table, expandable, mdFolder) = mdResult

C10_Witness ==
    /\ mdFolder = NameInboxUpper
    /\ aliases[NameInboxUpper] = NameWork
    /\ aliases[NameInbox] = NameSub
    /\ PathOf(NameWork) \in expandable
    /\ mdResult = OkPath(RootPath)

\* C11 (SpecBuilder): every answer of the builder to a capability question is a
\* feature or unsupported; the answers to one capability are all the same,
\* whatever the configuration, before and after build, after a build that
\* failed and after operations on the context; the eighteen capabilities the
\* impl defines are always answered with a feature.
C11_StaticCapabilities ==
    /\ \A q \in bLog : q.answer \in {"feature", "unsupported"}
    /\ \A q, r \in bLog : q.cap = r.cap => q.answer = r.answer
    /\ \A q \in bLog : q.cap \in Overridden => q.answer = "feature"

C11_Witness ==
    \E q, r \in bLog :
        /\ q.cap = "check_up" /\ r.cap = "check_up"
        /\ q.built = "no" /\ r.built = "failed"
        /\ q.config # r.config
        /\ q.answer = "feature" /\ r.answer = "feature"

\* the ids a call names, and the directories it names
CallIds == IF sCall.op \in {"remove_messages", "move_messages"} THEN Range(sCall.ids) ELSE {}
CallDirs ==
    CASE sCall.op = "remove_messages" ->
            IF SResolve(sCall.folder).ok THEN {SResolve(sCall.folder).path} ELSE {}
      [] sCall.op = "move_messages" ->
            {SResolve(f).path : f \in {g \in {sCall.from, sCall.to} : SResolve(g).ok}}
      [] OTHER -> {}

\* C12 (SpecStore): after remove_messages and after move_messages, by success
\* and by failure, every entry that is not under one of the ids of the call in
\* one of the folders of the call is as it was before the call.
C12_SideEffectsConfined ==
    sCall.op \in {"remove_messages", "move_messages"} =>
        LET dirs == CallDirs
            ids == CallIds
        IN  \A d \in SDirs, i \in MsgIds :
                (d \notin dirs \/ i \notin ids) => sStore[d][i] = sBefore[d][i]

C12_Witness ==
    /\ sCall.op = "move_messages"
    /\ sCall.from = NameWork /\ sCall.to = NameSub
    /\ sCall.ids = <<"m1", "m2">>
    /\ sResult = MoveMessagesError(NameWork, NameSub, "m2")
    /\ sStore # sBefore
    /\ sBefore[RootPath]["m1"] = "b1"
    /\ sBefore[RootJoin(NameWork)]["m2"] = NoEntry

\* C13 (SpecStore): after a remove_messages that succeeded, none of its ids is
\* in the folder (and an entry erased so stays erased until a move brings the
\* id back); a remove_messages that names an id that is not in the folder when
\* the call starts returns the remove error, never success.
C13_RemoveErases ==
    /\ \A p \in sRemoved : sStore[p[1]][p[2]] = NoEntry
    /\ (sCall.op = "remove_messages" /\ SResolve(sCall.folder).ok) =>
          LET dir == SResolve(sCall.folder).path IN
          /\ sResult = SOk => \A i \in Range(sCall.ids) : sStore[dir][i] = NoEntry
          /\ (\E i \in Range(sCall.ids) : sBefore[dir][i] = NoEntry)
                => sResult.kind = "RemoveMaildirMessageError"

C13_Witness ==
    /\ sCall.op = "remove_messages"
    /\ sCall.folder = NameWork
    /\ sCall.ids = <<"m1">>
    /\ <<RootJoin(NameWork), "m1">> \in sRemoved
    /\ sResult = RemoveMaildirMessageError(NameWork, "m1")

\* C15 (SpecStore): in a folder that resolves to a maildir, get_envelope
\* returns the envelope of the entry stored under exactly the id asked for when
\* there is one, and the not-found error with the path of the folder and the
\* id when there is none; an envelope returned carries the id asked for, and
\* the store is as it was before the call.
C15_GetEnvelope ==
    (sCall.op = "get_envelope" /\ SResolve(sCall.folder).ok) =>
        LET dir == SResolve(sCall.folder).path IN
        /\ sBefore[dir][sCall.id] # NoEntry
              => sResult = EnvelopeOf(sCall.id, sBefore[dir][sCall.id])
        /\ sBefore[dir][sCall.id] = NoEntry
              => sResult = GetEnvelopeMaildirError(dir, sCall.id)
        /\ sResult.kind = "Envelope" => sResult.id = sCall.id
        /\ sStore = sBefore

C15_Witness ==
    /\ sCall.op = "get_envelope"
    /\ sCall.folder = NameSub
    /\ sCall.id = "m2"
    /\ sStore[RootJoin(<<".">> \o EncodeFolder(NameSub))]["m1"] # NoEntry
    /\ sResult = GetEnvelopeMaildirError(RootJoin(<<".">> \o EncodeFolder(NameSub)), "m2")

\* C14 (SpecPeek): after peek_messages, whether it returned the messages or an
\* error, the tags of every message, the index and the message files are as
\* they were before the call; a message peeked that was unread is still unread.
C14_PeekDoesNotMutate ==
    nCall.op = "peek_messages" =>
        /\ NDb(nTags, nIndexed, nFiles) = nBefore
        /\ \A i \in Range(nCall.ids) : "unread" \in nBefore.tags[i] => "unread" \in nTags[i]

C14_Witness ==
    /\ nCall.op = "peek_messages"
    /\ nCall.ids = <<"m1", "m2">>
    /\ nResult = Messages(<<RawOf("m1"), RawOf("m2")>>)
    /\ "unread" \in nTags["m1"]
    /\ "unread" \in nTags["m2"]

\* C16 (SpecImap): in IMAP get_messages every id string of the call is part of
\* the UID set fetched or the call returns an error value; no id is skipped,
\* no id makes the call panic, and Id::Single(s) ends as Id::Multiple([s]) does.
C16_UniformIds ==
    gCall.op = "get_messages" =>
        /\ gOutcome.kind # "Panic"
        /\ gOutcome.kind = "Messages" =>
              \A i \in 1..Len(gCall.id.ids) :
                  /\ SequenceTryFrom(gCall.id.ids[i]).ok
                  /\ SequenceTryFrom(gCall.id.ids[i]).seq \in Range(gOutcome.uids)
        /\ gCall.id.kind = "Single" =>
              gOutcome = GetMessagesOn(IdMultiple(gCall.id.ids), gCall.selectOk, gCall.fetchOk)

\* the variant each of the seven words stands for
VariantOf(word) ==
    CASE word = WordSeen -> Seen
      [] word \in {WordAnswered, WordReplied} -> Answered
      [] word = WordFlagged -> Flagged
      [] word \in {WordDeleted, WordTrashed} -> Deleted
      [] word = WordDraft -> Draft
\* the tokens of the text converted last that spell one of the seven words
WellFormedTokens ==
    {i \in 1..Len(fInput.tokens) :
        \E w \in KnownWords, style \in Styles : fInput.tokens[i] = Spell(w, style)}
WellFormedFlags ==
    {VariantOf(CHOOSE w \in KnownWords : \E style \in Styles : fInput.tokens[i] = Spell(w, style)) :
        i \in WellFormedTokens}

\* C17 as claimed (SpecParse): converting a flag text into Flags never fails
\* because of an unknown token, and yields every well-formed flag of the text.
C17_UnknownTokenNotFatalAsClaimed ==
    fInput.kind = "flags" =>
        /\ fFromStr.ok
        /\ WellFormedFlags \subseteq fFromStr.flags
        /\ WellFormedFlags \subseteq fFrom

\* C17 amended (SpecParse): the infallible conversion (From<&str> for Flags) never
\* fails: it drops every unknown token and yields exactly the well-formed flags
\* of the text; the fallible conversion (FromStr for Flags) yields the same set
\* when every token is well-formed and returns the parse error that names the
\* first unknown token otherwise.
C17_UnknownTokenNotFatal ==
    fInput.kind = "flags" =>
        /\ fFrom = WellFormedFlags
        /\ WellFormedTokens = 1..Len(fInput.tokens) => fFromStr = FlagsOk(WellFormedFlags)
        /\ WellFormedTokens # 1..Len(fInput.tokens) =>
              LET first == CHOOSE i \in 1..Len(fInput.tokens) :
                              /\ i \notin WellFormedTokens
                              /\ \A j \in 1..Len(fInput.tokens) : j \notin WellFormedTokens => i <= j
              IN  fFromStr = ParseFlagError(fInput.tokens[first])

C17_Witness ==
    /\ fInput.kind = "flags"
    /\ fInput.tokens = <<WordFoo, Spell(WordReplied, "upper")>>
    /\ fFrom = {Answered}
    /\ fFromStr = ParseFlagError(WordFoo)

\* C18 (SpecParse): for every spelling of the seven words (any letter case,
\* whitespace before and after), the fallible and the infallible conversion to
\* Flag both return the variant the word stands for: seen -> Seen, answered and
\* replied -> Answered, flagged -> Flagged, deleted and trashed -> Deleted,
\* draft -> Draft.
C18_FlagParsing ==
    (fInput.kind = "flag" /\ fInput.word \in KnownWords) =>
        /\ fFrom = VariantOf(fInput.word)
        /\ fFromStr = FlagOk(VariantOf(fInput.word))

C18_Witness ==
    /\ fInput.kind = "flag"
    /\ fInput.text = <<"\t", "\n", "t", "R", "a", "S", "h", "E", "d", " ">>
    /\ fFrom = Deleted
    /\ fFromStr = FlagOk(Deleted)

\* the raw headers of the call whose trimmed key the strategy of the call shows
ShownHeaders ==
    SelectSeq(tCall.headers,
              LAMBDA h : \/ tCall.strategy = StrategyAll
                         \/ tCall.strategy.kind = "Only" /\ Trim(h.key) \in tCall.strategy.keys)
RECURSIVE LinesOf(_)
LinesOf(headers) ==
    IF headers = <<>> THEN <<>>
    ELSE Trim(Head(headers).key) \o <<":", " ">> \o Trim(Head(headers).val) \o <<"\n">>
         \o LinesOf(Tail(headers))

\* C19 (SpecTpl): Tpl::interpret_with writes the shown headers as 'key: value'
\* lines in message order (all of them under show-all, exactly those whose name
\* is in the set under show-only, none when all are hidden), followed by one
\* empty line before the body if and only if at least one header was written;
\* with no header shown the template is the body alone.
C19_InterpretHeaders ==
    (tCall.op = "interpret_with" /\ tCall.parses /\ tCall.body.kind = "Ok") =>
        /\ tResult.kind = "Ok"
        /\ tResult.text = LinesOf(ShownHeaders)
                          \o (IF ShownHeaders # <<>> THEN <<"\n">> ELSE <<>>)
                          \o tCall.body.text
        /\ tCall.strategy = StrategyAll => ShownHeaders = tCall.headers
        /\ tCall.strategy = StrategyHideAll => tResult.text = tCall.body.text

C19_Witness ==
    /\ tCall.op = "interpret_with"
    /\ tCall.strategy = StrategyOnly({<<"From">>})
    /\ Len(tCall.headers) = 2
    /\ tCall.headers[1].key = <<"To">>
    /\ tCall.headers[2].key = <<"From">>
    /\ tCall.headers[2].val = <<" ", "a@l", "\n">>
    /\ tCall.body = TplOk(<<"Hello", "\n", "world">>)
    /\ tResult = TplOk(<<"From", ":", " ", "a@l", "\n", "\n", "Hello", "\n", "world">>)

\* the parts of the call that ask for encrypt=command
EncryptedParts == {i \in 1..Len(tCall.parts) : tCall.parts[i].encrypt}

\* C20 (SpecTpl): when a part asks for encrypt=command and no encrypt recipient
\* was set on the builder, compile_with takes the first address of the To
\* header of the template as the recipient and substitutes it for <recipient>
\* in the encrypt command; it fails with the missing-recipient error only when
\* no recipient can be found at all.
C20_RecipientDefaultsToFirstTo ==
    (/\ tCall.op = "compile_with"
     /\ EncryptedParts # {}
     /\ ~tCall.builder.pgp_encrypt_recipient.some) =>
        /\ (tCall.failure = "none" /\ tCall.to # <<>>) =>
              /\ tResult.kind = "Ok"
              /\ \A i \in EncryptedParts :
                    tResult.v.parts[i][Len(tResult.v.parts[i])] =
                        CmdReplace(CompilerBuild(tCall.builder).pgp_encrypt_cmd,
                                   Placeholder, tCall.to[1])
        /\ tResult = [kind |-> "CompileMmlError", v |-> <<"CompileTplMissingRecipientError">>]
              => tCall.to = <<>>

\* the completed reads and writes of one step
IoOf(step) == {i \in 1..Len(ioLog) : ioLog[i].step = step}

\* C21 (SpecStartTls): poll returns Ready(Ok) only in a state where the server
\* greeting has been read and the complete command "A1 STARTTLS\r\n" has been
\* written to the stream; it never reports completion with the command unsent
\* or only partly sent.
C21_CompleteOnlyWhenSent ==
    polled = "ReadyOk" =>
        /\ handshake_discarded
        /\ IoOf("greeting") # {}
        /\ wire = COMMAND

\* the command is written after the greeting read, and each of them once
StepOrder ==
    /\ \A i \in IoOf("command") : \E j \in IoOf("greeting") : j < i
    /\ wire # <<>> => handshake_discarded
    /\ Cardinality(IoOf("command")) <= 1
    /\ Cardinality(IoOf("greeting")) <= 1
\* the flags never change back from true to false
FlagsStay ==
    /\ handshake_discarded => handshake_discarded'
    /\ command_sent => command_sent'

\* C22 as stated (SpecStartTls): across re-polls no byte of the command is
\* written before the greeting read has completed, the command is written at
\* most once, the greeting is read at most once, the two flags never change
\* back from true to false, and a poll that returns Ready(Err) for an I/O
\* error changes neither flag.
C22_StepOrderAsClaimed ==
    [][/\ StepOrder'
       /\ FlagsStay
       /\ (polls' # polls /\ polled' = "ReadyErr") =>
              /\ handshake_discarded' = handshake_discarded
              /\ command_sent' = command_sent]_vars

\* C22 (SpecStartTls): across re-polls no byte of the command is written
\* before the greeting read has completed, the command is written at most
\* once, the greeting is read at most once, the two flags never change back
\* from true to false, and an I/O error returns Ready(Err) and leaves the flag
\* of the step that failed unset, while a flag set by an earlier step of the
\* same poll stays set.
C22_StepOrder ==
    [][/\ StepOrder'
       /\ FlagsStay
       /\ (polls' # polls /\ pollIn'.err \in IoSteps /\ polled' = "ReadyErr") =>
              /\ pollIn'.err = "greeting" =>
                    ~handshake_discarded' /\ command_sent' = command_sent
              /\ pollIn'.err = "command" => ~command_sent']_vars

C22_Witness ==
    /\ polls = 3
    /\ polled = "ReadyErr"
    /\ pollIn.err = "response"
    /\ handshake_discarded
    /\ command_sent
    /\ wire = COMMAND
    /\ Cardinality(IoOf("command")) = 1
    /\ Cardinality(IoOf("greeting")) = 1

\* the reads that completed after the command had been sent
ResponseReads == {i \in IoOf("response") : ioLog[i].sent}

\* C23 (SpecStartTls): between the moment the command has been sent and the
\* moment poll returns Ready(Ok), exactly one read of the server response
\* completes and is discarded (buffer zeroed, length unchanged), however often
\* poll is invoked again after a Pending read or a Pending flush.
C23_OneResponseRead ==
    /\ Cardinality(ResponseReads) <= 1
    /\ \A i \in ResponseReads : ioLog[i].data = "response"
    /\ buf = ZeroBuf
    /\ polled = "ReadyOk" => Cardinality(ResponseReads) = 1

\* the ids of the call before position k
IdsBefore(k) == {sCall.ids[j] : j \in 1..(k - 1)}
\* the ids of the call before position k are all different
DistinctBefore(k) == \A i, j \in 1..(k - 1) : i # j => sCall.ids[i] # sCall.ids[j]

\* remove_messages went through the ids before position k and no further
RemovedUpTo(dir, k) ==
    /\ DistinctBefore(k)
    /\ \A i \in IdsBefore(k) : sBefore[dir][i] # NoEntry /\ sStore[dir][i] = NoEntry
    /\ \A i \in MsgIds \ IdsBefore(k) : sStore[dir][i] = sBefore[dir][i]

\* move_messages went through the ids before position k and no further
MovedUpTo(from, to, k) ==
    /\ from # to => DistinctBefore(k)
    /\ \A i \in IdsBefore(k) :
          /\ sBefore[from][i] # NoEntry
          /\ sStore[to][i] = sBefore[from][i]
          /\ from # to => sStore[from][i] = NoEntry
    /\ \A i \in MsgIds \ IdsBefore(k) :
          sStore[from][i] = sBefore[from][i] /\ sStore[to][i] = sBefore[to][i]

\* C24 (SpecStore): remove_messages and move_messages process the ids of an
\* Id::Multiple in order; when the operation on one id fails the call returns
\* the error naming that id, the ids before it stay removed (moved) and the ids
\* after it are left untouched, with no rollback; the call returns success only
\* if the operation succeeded for every id.
C24_StopAtFirstFailure ==
    /\ (sCall.op = "remove_messages" /\ SResolve(sCall.folder).ok) =>
          LET dir == SResolve(sCall.folder).path
              n == Len(sCall.ids)
          IN  /\ sResult = SOk => RemovedUpTo(dir, n + 1)
              /\ sResult # SOk =>
                    \E k \in 1..n :
                        /\ sResult = RemoveMaildirMessageError(sCall.folder, sCall.ids[k])
                        /\ RemovedUpTo(dir, k)
    /\ (sCall.op = "move_messages" /\ SResolve(sCall.from).ok /\ SResolve(sCall.to).ok) =>
          LET from == SResolve(sCall.from).path
              to == SResolve(sCall.to).path
              n == Len(sCall.ids)
          IN  /\ sResult = SOk => MovedUpTo(from, to, n + 1)
              /\ sResult # SOk =>
                    \E k \in 1..n :
                        /\ sResult = MoveMessagesError(sCall.from, sCall.to, sCall.ids[k])
                        /\ MovedUpTo(from, to, k)

C24_Witness ==
    /\ sCall.op = "remove_messages"
    /\ sCall.folder = NameWork
    /\ sCall.ids = <<"m1", "m2">>
    /\ sResult = RemoveMaildirMessageError(NameWork, "m2")
    /\ sBefore[RootJoin(NameWork)]["m1"] # NoEntry
    /\ sStore[RootJoin(NameWork)]["m1"] = NoEntry
    /\ sBefore[RootJoin(NameWork)]["m2"] # NoEntry
    /\ sStore[RootJoin(NameWork)]["m2"] # NoEntry

\* C25 (SpecSend): send_message runs the pre-send hook (when configured) before
\* the sendmail command and runs the sendmail command exactly once per call; it
\* returns an error only when the sendmail command fails; after a failing hook
\* the sendmail command receives the caller's bytes, after a succeeding hook
\* the hook's output, and with no hook configured the caller's bytes.
C25_SendmailReceives ==
    /\ mSendmailRuns = mSends
    /\ mCall.op = "send_message" =>
          LET last == mRuns[Len(mRuns)] IN
          /\ Len(mRuns) = IF preSendHook THEN 2 ELSE 1
          /\ last.cmd = "sendmail"
          /\ preSendHook => mRuns[1].cmd = "pre_send_hook"
          /\ mResult # SOk <=> ~mCall.sendmailOk
          /\ last.input = IF preSendHook /\ mCall.hook.ok THEN mCall.hook.out ELSE mCall.msg

\* the alias of the folder resolved last, and the URL-encoded alias
ResolvedAlias ==
    IF aliases[mdFolder] # NoAlias THEN aliases[mdFolder] ELSE mdFolder
UrlEncodedAlias ==
    CASE ResolvedAlias = <<"w">> -> <<"w">>
      [] ResolvedAlias = <<"a", "/", "b">> -> <<"a", "%", "2", "F", "b">>
\* the alias as a path by itself, under the root, and as the root's dot directory
ByItself  == [base |-> "none", rel |-> ResolvedAlias]
UnderRoot == [base |-> "root", rel |-> ResolvedAlias]
DotFolder == [base |-> "root", rel |-> <<".">> \o UrlEncodedAlias]

\* C26 (SpecMaildir): for a folder name that is not the inbox,
\* get_maildir_from_folder_name replaces the name by its alias and tries the
\* alias as a path by itself, then relative to the root directory, then the
\* root's subdirectory named '.' followed by the URL-encoded alias; the first
\* candidate that expands is returned, a later one is never used when an
\* earlier one expands, and the error is returned only when all three fail.
C26_ResolutionOrder ==
    (mdFolder \in FolderNames /\ ~MatchesInbox(mdFolder)) =>
        /\ ByItself \in expandable => mdResult = [ok |-> TRUE, path |-> ByItself]
        /\ (ByItself \notin expandable /\ UnderRoot \in expandable)
              => mdResult = [ok |-> TRUE, path |-> UnderRoot]
        /\ (ByItself \notin expandable /\ UnderRoot \notin expandable /\ DotFolder \in expandable)
              => mdResult = [ok |-> TRUE, path |-> DotFolder]
        /\ ~mdResult.ok <=> {ByItself, UnderRoot, DotFolder} \cap expandable = {}

C26_Witness ==
    /\ mdFolder = NameWork
    /\ aliases[NameWork] = NameSub
    /\ ByItself \notin expandable
    /\ UnderRoot \in expandable
    /\ DotFolder \in expandable
    /\ mdResult = [ok |-> TRUE, path |-> [base |-> "root", rel |-> <<"a", "/", "b">>]]

\* C27 (SpecPasswd): over any sequence of configure and reset calls, configure
\* calls get_passwd and writes to the keyring only when the lookup succeeded
\* and found no password; when a password is stored it returns Ok with the
\* keyring unchanged; when the lookup or get_passwd fails it returns an error
\* with the keyring unchanged; after every successful configure the keyring
\* holds a password, and after a successful reset the next configure asks for
\* the password again.
C27_NeverOverwrites ==
    /\ kCall.op = "configure" =>
          /\ (kAsked \/ kWrote) => (kCall.findOk /\ kBefore = NoPasswd)
          /\ kBefore # NoPasswd => kKeyring = kBefore
          /\ (kBefore # NoPasswd /\ kCall.findOk) => kResult = SOk
          /\ (~kCall.findOk \/ (kAsked /\ ~kCall.got.ok)) =>
                (kResult # SOk /\ kKeyring = kBefore)
          /\ kResult = SOk => kKeyring \in Passwords
          /\ (kPrev = [op |-> "reset", ok |-> TRUE] /\ kCall.findOk) => kAsked
    /\ (kCall.op = "reset" /\ kResult = SOk) => kKeyring = NoPasswd

C27_Witness ==
    /\ kPrev = [op |-> "reset", ok |-> TRUE]
    /\ kCall.op = "configure"
    /\ kBefore = NoPasswd
    /\ kAsked
    /\ kWrote
    /\ kKeyring = "p2"
    /\ kResult = SOk

====
